---- MODULE Spec2Model ----
(***************************************************************************)
(* Model of the mbox local message store: MboxMsgOutputStream (the "From " *)
(* escaping, write-or-rollback output stream) and the parts of             *)
(* nsMsgBrkMBoxStore that issue, commit and discard new-message streams,   *)
(* rewrite flags and keywords in place, start a compaction and judge the   *)
(* validity of the folder summary.  Bytes are one-character strings, byte  *)
(* strings are sequences.                                                  *)
(***************************************************************************)
EXTENDS Integers, Sequences, FiniteSets, TLC

VARIABLES
  file,      \* bytes of the folder's mbox file (the sink of every stream)
  streams,   \* stream id -> MboxMsgOutputStream object and its inner sink handle
  table,     \* m_OutstandingStreams: folder URI -> id of the raw stream held
  last,      \* the last call made and what it returned
  calls,     \* number of calls made so far
  folder     \* the folder's message database, summary data and compaction

vars == <<file, streams, table, last, calls, folder>>

(***************************************************************************)
(* Bounds                                                                  *)
(***************************************************************************)
MaxCalls == 4          \* calls made on the stream(s) in one behaviour
MaxStoreCalls == 5     \* calls made on the store in one behaviour
MaxStreams == 3        \* streams the store issues in one behaviour
MaxMsgChunks == 3      \* chunks joined into a message written in one call

(***************************************************************************)
(* Bytes and byte strings                                                  *)
(***************************************************************************)
LF == "\n"
CR == "\r"
CRLF == <<CR, LF>>
GT == ">"

\* Buffers a caller passes to Write().
Chunks ==
  { <<"F">>,
    <<"r", "o", "m", " ">>,
    <<"F", "r", "o", "m", " ">>,
    <<GT>>,
    <<LF>>,
    <<LF, GT, "F", "r", "o", "m", " ">>,
    <<"x">> }

\* Content the sink may hold when a stream is constructed over it.
PriorContents == { <<>>, <<"a", LF>>, <<"a">> }

\* Envelope senders handed to SetEnvelopeDetails().
Senders == { <<>>, <<"b", " ", "c">> }

\* Bytes the sink accepts during one call before it fails; -1: it does not
\* fail.  A Write() meets a sink that fails after a partial write, a Finish()
\* also one that fails at once.
SinkAccepts == { -1, 2 }
FinishAccepts == { -1, 0, 2 }

\* The formatted envelope date (PR_FormatTimeUSEnglish output), kept opaque.
DateStr == <<"d">>

NS_OK == "NS_OK"
NS_BASE_STREAM_CLOSED == "NS_BASE_STREAM_CLOSED"
NS_ERROR_UNEXPECTED == "NS_ERROR_UNEXPECTED"
NS_ERROR_FAILURE == "NS_ERROR_FAILURE"
NS_ERROR_FILE_NO_DEVICE_SPACE == "NS_ERROR_FILE_NO_DEVICE_SPACE"

eInitial == "eInitial"
eStartOfLine == "eStartOfLine"
eStartAwaitingData == "eStartAwaitingData"
eMidLine == "eMidLine"
eClosed == "eClosed"
eError == "eError"

eDoEscape == "eDoEscape"
eDontEscape == "eDontEscape"
eNeedMore == "eNeedMore"

Last(s) == s[Len(s)]

RECURSIVE Flatten(_)
Flatten(ss) == IF ss = <<>> THEN <<>> ELSE Head(ss) \o Flatten(Tail(ss))

IsPrefix(p, s) == Len(p) <= Len(s) /\ SubSeq(s, 1, Len(p)) = p

(***************************************************************************)
(* buildFromLine                                                           *)
(***************************************************************************)
ReplaceChar(s) ==
  [i \in 1..Len(s) |-> IF s[i] \in {" ", "\t", CR, LF} THEN "-" ELSE s[i]]

buildFromLine(envSender) ==
  LET sender == IF envSender = <<>> THEN <<"-">> ELSE envSender
  IN  <<"F", "r", "o", "m", " ">> \o ReplaceChar(sender) \o <<" ">>
        \o DateStr \o CRLF

(***************************************************************************)
(* DecideEscaping                                                          *)
(***************************************************************************)
sep == <<"F", "r", "o", "m", " ">>

RECURSIVE SkipQuotes(_, _)
SkipQuotes(s, it) ==
  IF it <= Len(s) /\ s[it] = GT THEN SkipQuotes(s, it + 1) ELSE it

RECURSIVE MatchSep(_, _, _)
MatchSep(s, it, i) ==
  IF i > Len(sep) THEN eDoEscape
  ELSE IF it > Len(s) THEN eNeedMore
  ELSE IF s[it] # sep[i] THEN eDontEscape
  ELSE MatchSep(s, it + 1, i + 1)

\* DecideEscaping without the loop that skips the leading '>' characters.
DecideEscapingNoQuotes(s) == MatchSep(s, 1, 1)

DecideEscaping(s) == MatchSep(s, SkipQuotes(s, 1), 1)

(***************************************************************************)
(* The stream object.  innerOpen is the state of mInner, the sink handle.  *)
(* The fields from base on are history: the sink content at construction,  *)
(* the bytes passed to Write() so far, the phase ("writing" while every    *)
(* call was a Write() that succeeded, "committed" after a Finish() that    *)
(* succeeded in that phase, else "other"), whether the assertion of the    *)
(* eStartAwaitingData branch was violated, whether a Finish() committed    *)
(* and the sink content it left.  hasHdr and token are the message header  *)
(* the store attached and its store token; held: the client that got the   *)
(* stream from the store has not yet handed it back.                       *)
(***************************************************************************)
NoStream == [issued |-> FALSE]

NewStream(content, closeInnerWhenDone, tellOk) ==
  [issued |-> TRUE,
   mState |-> IF tellOk THEN eInitial ELSE eError,
   mStatus |-> IF tellOk THEN NS_OK ELSE NS_ERROR_FAILURE,
   mStartPos |-> IF tellOk THEN Len(content) ELSE -1,
   mStartFragment |-> <<>>,
   mEnvelopeSender |-> <<>>,
   mCloseInnerWhenDone |-> closeInnerWhenDone,
   innerOpen |-> TRUE,
   base |-> content,
   msg |-> <<>>,
   phase |-> "writing",
   assertFailed |-> FALSE,
   committed |-> FALSE,
   commitFile |-> <<>>,
   hasHdr |-> FALSE,
   token |-> <<>>,
   held |-> TRUE]

\* A call in progress: the stream, the file, the bytes the sink still
\* accepts in this call and the status of the last step.
Ctx(s, f, accepts) == [s |-> s, file |-> f, accepts |-> accepts, rv |-> NS_OK]

(***************************************************************************)
(* Emit: pass bytes to the sink, keeping the error state updated.  The     *)
(* loop over partial sink writes ends with all bytes accepted or with the  *)
(* bytes accepted before the sink failed.                                  *)
(***************************************************************************)
Emit(c, data) ==
  IF c.s.mState = eError THEN [c EXCEPT !.rv = c.s.mStatus]
  ELSE IF c.s.mState = eClosed
    THEN [c EXCEPT !.s.mState = eError, !.s.mStatus = NS_BASE_STREAM_CLOSED,
                   !.rv = NS_BASE_STREAM_CLOSED]
  ELSE IF Len(data) = 0 THEN [c EXCEPT !.rv = NS_OK]
  ELSE IF ~c.s.innerOpen
    THEN [c EXCEPT !.s.mState = eError, !.s.mStatus = NS_BASE_STREAM_CLOSED,
                   !.rv = NS_BASE_STREAM_CLOSED]
  ELSE IF c.accepts < 0 \/ Len(data) <= c.accepts
    THEN [c EXCEPT !.file = c.file \o data,
                   !.accepts = IF c.accepts < 0 THEN -1 ELSE c.accepts - Len(data),
                   !.rv = NS_OK]
  ELSE [c EXCEPT !.file = c.file \o SubSeq(data, 1, c.accepts),
                 !.accepts = 0,
                 !.s.mState = eError,
                 !.s.mStatus = NS_ERROR_FILE_NO_DEVICE_SPACE,
                 !.rv = NS_ERROR_FILE_NO_DEVICE_SPACE]

(***************************************************************************)
(* Write                                                                   *)
(***************************************************************************)
\* Index of the first LF of buf at or after src, Len(buf) + 1 when none.
RECURSIVE FindEol(_, _)
FindEol(buf, src) ==
  IF src > Len(buf) \/ buf[src] = LF THEN src ELSE FindEol(buf, src + 1)

\* The eStartAwaitingData branch: extend the buffered fragment with new
\* bytes until the escaping decision is definite, then flush it.
RECURSIVE AwaitData(_, _, _)
AwaitData(c, buf, src) ==
  LET frag == c.s.mStartFragment
      decision == DecideEscaping(frag)
  IN  IF decision = eNeedMore
      THEN IF src > Len(buf)
           THEN [c |-> c, src |-> src, done |-> TRUE]
           ELSE AwaitData([c EXCEPT !.s.mStartFragment = Append(frag, buf[src])],
                          buf, src + 1)
      ELSE LET c1 == IF decision = eDoEscape THEN Emit(c, <<GT>>) ELSE c
               c2 == IF c1.rv = NS_OK THEN Emit(c1, frag) ELSE c1
           IN  IF c2.rv # NS_OK
               THEN [c |-> c2, src |-> src, done |-> TRUE]
               ELSE [c |-> [c2 EXCEPT
                              !.s.mState = IF Last(frag) # LF THEN eMidLine ELSE @,
                              !.s.mStartFragment = <<>>],
                     src |-> src, done |-> FALSE]

\* The loop over the remaining incoming data.
RECURSIVE Scan(_, _, _, _)
Scan(c, buf, unwritten, src) ==
  LET end == Len(buf) + 1
      atStart == c.s.mState = eStartOfLine
      decision == IF atStart THEN DecideEscaping(SubSeq(buf, src, end - 1))
                  ELSE eDontEscape
      escape == atStart /\ decision = eDoEscape
      c1 == IF escape THEN Emit(c, SubSeq(buf, unwritten, src - 1)) ELSE c
      c2 == IF escape /\ c1.rv = NS_OK THEN Emit(c1, <<GT>>) ELSE c1
      unwritten2 == IF escape THEN src ELSE unwritten
      eol == FindEol(buf, src)
  IN  IF src = end THEN Emit(c, SubSeq(buf, unwritten, end - 1))
      ELSE IF atStart /\ decision = eNeedMore
      THEN LET f1 == Emit(c, SubSeq(buf, unwritten, src - 1))
           IN  IF f1.rv # NS_OK THEN f1
               ELSE [f1 EXCEPT !.s.mState = eStartAwaitingData,
                               !.s.mStartFragment = SubSeq(buf, src, end - 1)]
      ELSE IF c2.rv # NS_OK THEN c2
      ELSE IF eol = end
      THEN LET c3 == Emit(c2, SubSeq(buf, unwritten2, end - 1))
           IN  IF c3.rv # NS_OK THEN c3 ELSE [c3 EXCEPT !.s.mState = eMidLine]
      ELSE Scan([c2 EXCEPT !.s.mState = eStartOfLine], buf, unwritten2, eol + 1)

\* The same Write() reporting in bytesWritten the bytes of buf that have
\* been passed to the sink, those held back as a fragment left out.
WriteCountingEmitted(s, f, accepts, buf) ==
  LET c0 == Ctx(s, f, accepts)
      e  == Emit(c0, buildFromLine(s.mEnvelopeSender))
      c1 == IF s.mState # eInitial THEN c0
            ELSE IF e.rv = NS_OK THEN [e EXCEPT !.s.mState = eStartOfLine]
            ELSE e
      c1a == [c1 EXCEPT !.s.assertFailed =
                 @ \/ (c1.s.mState = eStartAwaitingData /\ c1.s.mStartFragment = <<>>)]
      a  == IF c1.rv = NS_OK /\ c1.s.mState = eStartAwaitingData
            THEN AwaitData(c1a, buf, 1)
            ELSE [c |-> c1, src |-> 1, done |-> c1.rv # NS_OK]
      c3 == IF a.done THEN a.c ELSE Scan(a.c, buf, a.src, a.src)
  IN  IF Len(buf) = 0
      THEN [s |-> s, file |-> f, rv |-> NS_OK, n |-> 0]
      ELSE [s |-> c3.s, file |-> c3.file, rv |-> c3.rv,
            n |-> IF c3.rv = NS_OK
                  THEN IF c3.s.mState = eStartAwaitingData
                       THEN Len(buf) - Len(c3.s.mStartFragment) ELSE Len(buf)
                  ELSE 0]

\* Write(buf): the stream s over file f, the sink accepting `accepts` bytes.
\* Returns the stream, the file, the status and bytesWritten.
Write(s, f, accepts, buf) ==
  LET c0 == Ctx(s, f, accepts)
      e  == Emit(c0, buildFromLine(s.mEnvelopeSender))
      c1 == IF s.mState # eInitial THEN c0
            ELSE IF e.rv = NS_OK THEN [e EXCEPT !.s.mState = eStartOfLine]
            ELSE e
      c1a == [c1 EXCEPT !.s.assertFailed =
                 @ \/ (c1.s.mState = eStartAwaitingData /\ c1.s.mStartFragment = <<>>)]
      a  == IF c1.rv = NS_OK /\ c1.s.mState = eStartAwaitingData
            THEN AwaitData(c1a, buf, 1)
            ELSE [c |-> c1, src |-> 1, done |-> c1.rv # NS_OK]
      c3 == IF a.done THEN a.c ELSE Scan(a.c, buf, a.src, a.src)
  IN  IF Len(buf) = 0
      THEN [s |-> s, file |-> f, rv |-> NS_OK, n |-> 0]
      ELSE [s |-> c3.s, file |-> c3.file, rv |-> c3.rv,
            n |-> IF c3.rv = NS_OK THEN Len(buf) ELSE 0]

(***************************************************************************)
(* Flush                                                                   *)
(***************************************************************************)
Flush(s, flushOk) ==
  IF s.mState = eClosed THEN [s |-> s, rv |-> NS_OK]
  ELSE IF s.mState = eError THEN [s |-> s, rv |-> s.mStatus]
  ELSE IF flushOk \/ ~s.innerOpen THEN [s |-> s, rv |-> NS_OK]
  ELSE [s |-> [s EXCEPT !.mState = eError, !.mStatus = NS_ERROR_FAILURE],
        rv |-> NS_ERROR_FAILURE]

(***************************************************************************)
(* Close / InternalClose                                                   *)
(***************************************************************************)
NUL == "NUL"

\* A SetEOF() that reports success and leaves the sink as it is.
SetEOFKeeps(f, pos) == f

\* SetEOF() with the sink positioned at pos.
SetEOF(f, pos) ==
  IF pos <= Len(f) THEN SubSeq(f, 1, pos)
  ELSE f \o [i \in 1..(pos - Len(f)) |-> NUL]

\* mInner->Close(): closing a closed sink succeeds and does nothing.
InnerClose(s, closeOk) ==
  [s |-> [s EXCEPT !.innerOpen = FALSE],
   rv |-> IF s.innerOpen /\ ~closeOk THEN NS_ERROR_FAILURE ELSE NS_OK]

InternalCloseSkipsOnError(s, f, seekOk, eofOk, closeOk) ==
  LET rv0 == IF s.mStartPos < 0 THEN NS_ERROR_UNEXPECTED ELSE NS_OK
      seeked == rv0 = NS_OK /\ s.innerOpen /\ seekOk /\ s.mState # eError
      f1 == IF seeked /\ eofOk THEN SetEOF(f, s.mStartPos) ELSE f
      \* the status of Seek/SetEOF is assigned to a variable declared in the
      \* inner block, so rv0 is what the rest of the function sees
      ic == InnerClose(s, closeOk)
      s1 == IF s.mCloseInnerWhenDone THEN ic.s ELSE s
      rv == IF s.mCloseInnerWhenDone /\ rv0 = NS_OK THEN ic.rv ELSE rv0
  IN  IF s.mState = eClosed
      THEN [s |-> s, file |-> f, rv |-> NS_OK, rolledBack |-> "none",
            attempted |-> FALSE]
      ELSE [s |-> [s1 EXCEPT !.mState = eClosed], file |-> f1, rv |-> rv,
            rolledBack |-> IF seeked /\ eofOk THEN "done" ELSE "failed",
            attempted |-> rv0 = NS_OK /\ s.mState # eError]

\* seekOk, eofOk, closeOk: whether the sink's Seek, SetEOF and Close succeed
\* (Seek fails in any case on a closed sink).
InternalClose(s, f, seekOk, eofOk, closeOk) ==
  LET rv0 == IF s.mStartPos < 0 THEN NS_ERROR_UNEXPECTED ELSE NS_OK
      seeked == rv0 = NS_OK /\ s.innerOpen /\ seekOk
      f1 == IF seeked /\ eofOk THEN SetEOF(f, s.mStartPos) ELSE f
      \* the status of Seek/SetEOF is assigned to a variable declared in the
      \* inner block, so rv0 is what the rest of the function sees
      ic == InnerClose(s, closeOk)
      s1 == IF s.mCloseInnerWhenDone THEN ic.s ELSE s
      rv == IF s.mCloseInnerWhenDone /\ rv0 = NS_OK THEN ic.rv ELSE rv0
  IN  IF s.mState = eClosed
      THEN [s |-> s, file |-> f, rv |-> NS_OK, rolledBack |-> "none",
            attempted |-> FALSE]
      ELSE [s |-> [s1 EXCEPT !.mState = eClosed], file |-> f1, rv |-> rv,
            rolledBack |-> IF seeked /\ eofOk THEN "done" ELSE "failed",
            attempted |-> rv0 = NS_OK]

Close(s, f, seekOk, eofOk, closeOk) == InternalClose(s, f, seekOk, eofOk, closeOk)

(***************************************************************************)
(* Finish                                                                  *)
(***************************************************************************)
\* oobIsLF: what the read of mStartFragment[Length() - 1] yields when the
\* fragment is empty (an out-of-bounds read): TRUE when it compares equal
\* to LF.
FinishWithEnvelope(s, f, accepts, seekOk, eofOk, closeOk, oobIsLF) ==
  LET c0 == Ctx(s, f, accepts)
      c1 == IF s.mState = eMidLine THEN Emit(c0, CRLF)
            ELSE IF s.mState = eInitial
            THEN Emit(c0, buildFromLine(s.mEnvelopeSender))
            ELSE c0
      frag == s.mStartFragment
      endsLF == IF frag = <<>> THEN oobIsLF ELSE Last(frag) = LF
      c2a == Emit(c1, frag)
      c2 == IF c1.rv = NS_OK /\ c1.s.mState = eStartAwaitingData
            THEN IF c2a.rv = NS_OK /\ ~endsLF THEN Emit(c2a, CRLF) ELSE c2a
            ELSE c1
      c3 == IF c2.rv = NS_OK THEN Emit(c2, CRLF) ELSE c2
      rb == InternalClose(c3.s, c3.file, seekOk, eofOk, closeOk)
      ic == InnerClose(c3.s, closeOk)
      erb == InternalClose(s, f, seekOk, eofOk, closeOk)
  IN  IF s.mState = eClosed
      THEN [s |-> s, file |-> f, rv |-> NS_OK, rolledBack |-> "none",
            attempted |-> FALSE]
      ELSE IF s.mState = eError
      THEN [s |-> erb.s, file |-> erb.file, rv |-> s.mStatus,
            rolledBack |-> erb.rolledBack, attempted |-> erb.attempted]
      ELSE IF c3.rv # NS_OK
      THEN [s |-> rb.s, file |-> rb.file, rv |-> c3.rv,
            rolledBack |-> rb.rolledBack, attempted |-> rb.attempted]
      ELSE IF s.mCloseInnerWhenDone
      THEN [s |-> [ic.s EXCEPT !.mState = eClosed], file |-> c3.file,
            rv |-> ic.rv, rolledBack |-> "none", attempted |-> FALSE]
      ELSE [s |-> [c3.s EXCEPT !.mState = eClosed], file |-> c3.file,
            rv |-> NS_OK, rolledBack |-> "none", attempted |-> FALSE]

Finish(s, f, accepts, seekOk, eofOk, closeOk, oobIsLF) ==
  LET c0 == Ctx(s, f, accepts)
      c1 == IF s.mState = eMidLine THEN Emit(c0, CRLF) ELSE c0
      frag == s.mStartFragment
      endsLF == IF frag = <<>> THEN oobIsLF ELSE Last(frag) = LF
      c2a == Emit(c1, frag)
      c2 == IF c1.rv = NS_OK /\ c1.s.mState = eStartAwaitingData
            THEN IF c2a.rv = NS_OK /\ ~endsLF THEN Emit(c2a, CRLF) ELSE c2a
            ELSE c1
      c3 == IF c2.rv = NS_OK THEN Emit(c2, CRLF) ELSE c2
      rb == InternalClose(c3.s, c3.file, seekOk, eofOk, closeOk)
      ic == InnerClose(c3.s, closeOk)
      erb == InternalClose(s, f, seekOk, eofOk, closeOk)
  IN  IF s.mState = eClosed
      THEN [s |-> s, file |-> f, rv |-> NS_OK, rolledBack |-> "none",
            attempted |-> FALSE]
      ELSE IF s.mState = eError
      THEN [s |-> erb.s, file |-> erb.file, rv |-> s.mStatus,
            rolledBack |-> erb.rolledBack, attempted |-> erb.attempted]
      ELSE IF c3.rv # NS_OK
      THEN [s |-> rb.s, file |-> rb.file, rv |-> c3.rv,
            rolledBack |-> rb.rolledBack, attempted |-> rb.attempted]
      ELSE IF s.mCloseInnerWhenDone
      THEN [s |-> [ic.s EXCEPT !.mState = eClosed], file |-> c3.file,
            rv |-> ic.rv, rolledBack |-> "none", attempted |-> FALSE]
      ELSE [s |-> [c3.s EXCEPT !.mState = eClosed], file |-> c3.file,
            rv |-> NS_OK, rolledBack |-> "none", attempted |-> FALSE]

(***************************************************************************)
(* Calls on one stream                                                     *)
(***************************************************************************)
StreamIds == 1..MaxStreams
Folder == "mailbox://nobody@Local/Inbox"
EmptyTable == [u \in {} |-> 0]

Issued(id) == streams[id].issued

Call(op, id, r, s) ==
  [op |-> op, id |-> id, rv |-> r.rv,
   n |-> IF op = "Write" THEN r.n ELSE 0,
   rolledBack |-> IF op \in {"Close", "Finish"} THEN r.rolledBack ELSE "none",
   attempted |-> IF op \in {"Close", "Finish"} THEN r.attempted ELSE FALSE,
   pre |-> s.mState, displaced |-> 0]

\* SetEnvelopeDetails(sender, received), called before any write.
SetEnvelopeDetails(id, sender) ==
  /\ Issued(id)
  /\ streams[id].mState \in {eInitial, eError}
  /\ LET s == streams[id]
         s1 == IF s.mState = eError THEN s ELSE [s EXCEPT !.mEnvelopeSender = sender]
     IN  /\ streams' = [streams EXCEPT ![id] = s1]
         /\ last' = Call("SetEnvelopeDetails", id, [rv |-> NS_OK], s)
  /\ calls' = calls + 1
  /\ UNCHANGED folder
  /\ UNCHANGED <<file, table>>

WriteCall(id, buf, accepts) ==
  /\ Issued(id)
  /\ LET s == streams[id]
         r == Write(s, file, accepts, buf)
     IN  /\ streams' = [streams EXCEPT ![id] =
                          [r.s EXCEPT !.msg = s.msg \o buf,
                                      !.phase = IF @ = "writing" /\ r.rv = NS_OK
                                                THEN "writing" ELSE "other"]]
         /\ file' = r.file
         /\ last' = Call("Write", id, r, s)
  /\ calls' = calls + 1
  /\ UNCHANGED folder
  /\ UNCHANGED table

FlushCall(id, flushOk) ==
  /\ Issued(id)
  /\ LET s == streams[id]
         r == Flush(s, flushOk)
     IN  /\ streams' = [streams EXCEPT ![id] = [r.s EXCEPT !.phase = "other"]]
         /\ last' = Call("Flush", id, r, s)
  /\ calls' = calls + 1
  /\ UNCHANGED folder
  /\ UNCHANGED <<file, table>>

CloseCall(id, seekOk, eofOk, closeOk) ==
  /\ Issued(id)
  /\ LET s == streams[id]
         r == Close(s, file, seekOk, eofOk, closeOk)
     IN  /\ streams' = [streams EXCEPT ![id] = [r.s EXCEPT !.phase = "other"]]
         /\ file' = r.file
         /\ last' = Call("Close", id, r, s)
  /\ calls' = calls + 1
  /\ UNCHANGED folder
  /\ UNCHANGED table

\* Finish() on stream s returned success after writing the end of the message.
Commits(s, r) == r.rv = NS_OK /\ s.mState \notin {eClosed, eError}

FinishCall(id, accepts, seekOk, eofOk, closeOk, oobIsLF) ==
  /\ Issued(id)
  /\ LET s == streams[id]
         r == Finish(s, file, accepts, seekOk, eofOk, closeOk, oobIsLF)
     IN  /\ streams' = [streams EXCEPT ![id] =
                          [r.s EXCEPT
                             !.phase = IF @ = "writing" /\ r.rv = NS_OK
                                       THEN "committed" ELSE "other",
                             !.committed = @ \/ Commits(s, r),
                             !.commitFile = IF Commits(s, r) /\ ~s.committed
                                            THEN r.file ELSE @]]
         /\ file' = r.file
         /\ last' = Call("Finish", id, r, s)
  /\ calls' = calls + 1
  /\ UNCHANGED folder
  /\ UNCHANGED table

(***************************************************************************)
(* One stream over a sink: any calls in any order                          *)
(***************************************************************************)
\* A folder of which only the mbox file matters.
NoFolder == [hdrs |-> <<>>, compacting |-> FALSE]

NoCall ==
  [op |-> "none", id |-> 0, rv |-> NS_OK, n |-> 0, rolledBack |-> "none",
   attempted |-> FALSE,
   pre |-> eInitial, displaced |-> 0]

InitStream ==
  /\ file \in { c \in PriorContents : c = <<>> \/ Last(c) = LF }
  /\ \E closeInnerWhenDone \in BOOLEAN, tellOk \in BOOLEAN :
       streams = [id \in StreamIds |->
                    IF id = 1 THEN NewStream(file, closeInnerWhenDone, tellOk)
                    ELSE NoStream]
  /\ table = EmptyTable
  /\ last = NoCall
  /\ calls = 0
  /\ folder = NoFolder

StreamSetEnvelope ==
  calls < MaxCalls /\ \E sender \in Senders : SetEnvelopeDetails(1, sender)

StreamWrite ==
  calls < MaxCalls /\ \E buf \in Chunks \cup {<<>>}, accepts \in SinkAccepts :
    WriteCall(1, buf, accepts)

\* The outcomes of the sink's Seek and SetEOF in a rollback (SetEOF is
\* called only after a successful Seek), and of the other sink calls where
\* the call on stream id can reach them.
RollbackOutcomes == { <<TRUE, TRUE>>, <<TRUE, FALSE>>, <<FALSE, TRUE>> }

CloseOutcomes(id) ==
  IF streams[id].mCloseInnerWhenDone /\ streams[id].innerOpen
  THEN BOOLEAN ELSE {TRUE}

FlushOutcomes(id) ==
  IF streams[id].mState \notin {eClosed, eError} /\ streams[id].innerOpen
  THEN BOOLEAN ELSE {TRUE}

OobOutcomes(id) ==
  IF streams[id].mState = eStartAwaitingData /\ streams[id].mStartFragment = <<>>
  THEN BOOLEAN ELSE {FALSE}

StreamFlush ==
  calls < MaxCalls /\ \E flushOk \in FlushOutcomes(1) : FlushCall(1, flushOk)

StreamClose ==
  calls < MaxCalls
  /\ \E rb \in RollbackOutcomes, closeOk \in CloseOutcomes(1) :
       CloseCall(1, rb[1], rb[2], closeOk)

StreamFinish ==
  calls < MaxCalls
  /\ \E accepts \in FinishAccepts, rb \in RollbackOutcomes,
        closeOk \in CloseOutcomes(1), oobIsLF \in OobOutcomes(1) :
       FinishCall(1, accepts, rb[1], rb[2], closeOk, oobIsLF)

NextStream ==
  \/ StreamSetEnvelope
  \/ StreamWrite
  \/ StreamFlush
  \/ StreamClose
  \/ StreamFinish

SpecStream == InitStream /\ [][NextStream]_vars

(***************************************************************************)
(* A whole message passed in one Write() and committed                     *)
(***************************************************************************)
Messages ==
  { Flatten(cs) : cs \in UNION { [1..n -> Chunks] : n \in 0..MaxMsgChunks } }

WholeSetEnvelope ==
  calls = 0 /\ \E sender \in Senders : SetEnvelopeDetails(1, sender)

WholeWrite ==
  /\ streams[1].msg = <<>>
  /\ last.op \in {"none", "SetEnvelopeDetails"}
  /\ \E m \in Messages, accepts \in SinkAccepts : WriteCall(1, m, accepts)

WholeFinish ==
  /\ last.op \in {"none", "SetEnvelopeDetails", "Write"}
  /\ \E accepts \in FinishAccepts, rb \in RollbackOutcomes,
        closeOk \in CloseOutcomes(1), oobIsLF \in OobOutcomes(1) :
       FinishCall(1, accepts, rb[1], rb[2], closeOk, oobIsLF)

NextWhole == WholeSetEnvelope \/ WholeWrite \/ WholeFinish

SpecWhole == InitStream /\ [][NextWhole]_vars

(***************************************************************************)
(* nsMsgBrkMBoxStore: issuing, committing and discarding message streams   *)
(***************************************************************************)
NS_ERROR_ILLEGAL_VALUE == "NS_ERROR_ILLEGAL_VALUE"

\* Buffers the clients of the store write.
StoreChunks == { <<"F">>, <<LF>> }

Digits == <<"0", "1", "2", "3", "4", "5", "6", "7", "8", "9">>

\* nsPrintfCString("%" PRId64, filePos) for filePos >= 0
RECURSIVE Decimal(_)
Decimal(n) ==
  IF n < 10 THEN <<Digits[n + 1]>>
  ELSE Decimal(n \div 10) \o <<Digits[(n % 10) + 1]>>

\* A check that finds every file ready for a new message.
CheckStartingOnNewLineAlways(f) == TRUE

\* CheckStartingOnNewLine: the file is empty or ends with LF.
CheckStartingOnNewLine(f) == f = <<>> \/ Last(f) = LF

Outstanding == IF Folder \in DOMAIN table THEN table[Folder] ELSE 0

Remove(t, uri) == [u \in DOMAIN t \ {uri} |-> t[u]]

PutNew(t, uri, id) == [u \in DOMAIN t \cup {uri} |-> IF u = uri THEN id ELSE t[u]]

Unissued == { id \in StreamIds : ~streams[id].issued }

\* A stream whose sink handle is open: issued and neither committed,
\* discarded nor force-closed.
Live(id) == streams[id].issued /\ streams[id].innerOpen

\* The steps of InternalGetNewMsgOutputStream that can fail.
GetFailures == { "none", "check", "eol", "seek" }

\* GetNewMsgOutputStream(aFolder, aNewMsgHdr): hasHdr, whether a header is
\* passed in or the folder has a database to create one; fail, the step that
\* fails; tellOk, whether Tell() succeeds in the stream's constructor.
GetNewMsgOutputStream(hasHdr, fail, tellOk) ==
  LET existing == Outstanding
      \* existing->value()->Close() closes the raw file stream held in the table
      streams1 == IF existing # 0
                  THEN [streams EXCEPT ![existing].innerOpen = FALSE]
                  ELSE streams
      table1 == Remove(table, Folder)
      onNewLine == CheckStartingOnNewLine(file)
      file1 == IF ~onNewLine /\ fail \in {"none", "seek"} THEN file \o CRLF ELSE file
      id == CHOOSE i \in Unissued : \A j \in Unissued : i <= j
      filePos == Len(file1)
      new == [NewStream(file1, TRUE, tellOk) EXCEPT
                !.hasHdr = hasHdr,
                !.token = IF hasHdr THEN Decimal(filePos) ELSE <<>>]
  IN  /\ Unissued # {}
      /\ fail = "eol" => ~onNewLine
      /\ file' = file1
      /\ IF fail = "none"
         THEN /\ streams' = [streams1 EXCEPT ![id] = new]
              /\ table' = PutNew(table1, Folder, id)
              /\ last' = [op |-> "GetNewMsgOutputStream", id |-> id, rv |-> NS_OK,
                          n |-> 0, rolledBack |-> "none", attempted |-> FALSE,
                          pre |-> eInitial, displaced |-> existing]
         ELSE /\ streams' = streams1
              /\ table' = table1
              /\ last' = [op |-> "GetNewMsgOutputStream", id |-> 0,
                          rv |-> NS_ERROR_FAILURE, n |-> 0, rolledBack |-> "none",
                          attempted |-> FALSE, pre |-> eInitial,
                          displaced |-> existing]
      /\ calls' = calls + 1
      /\ UNCHANGED folder

\* FinishNewMessage(aOutputStream, aNewHdr) by the client holding stream id.
FinishNewMessage(id, accepts, seekOk, eofOk, closeOk, oobIsLF) ==
  /\ Issued(id) /\ streams[id].held
  /\ LET s == streams[id]
         r == Finish(s, file, accepts, seekOk, eofOk, closeOk, oobIsLF)
     IN  /\ streams' = [streams EXCEPT ![id] =
                          [r.s EXCEPT
                             !.held = FALSE,
                             !.phase = IF @ = "writing" /\ r.rv = NS_OK
                                       THEN "committed" ELSE "other",
                             !.committed = @ \/ Commits(s, r),
                             !.commitFile = IF Commits(s, r) /\ ~s.committed
                                            THEN r.file ELSE @]]
         /\ file' = r.file
         /\ table' = IF r.rv = NS_OK /\ s.hasHdr THEN Remove(table, Folder) ELSE table
         /\ last' = [Call("FinishNewMessage", id, r, s) EXCEPT
                       !.rolledBack = r.rolledBack]
  /\ calls' = calls + 1
  /\ UNCHANGED folder

\* DiscardNewMessage(aOutputStream, aNewHdr) by the client holding stream id.
DiscardNewMessage(id, seekOk, eofOk, closeOk) ==
  /\ Issued(id) /\ streams[id].held
  /\ LET s == streams[id]
         c == Close(s, file, seekOk, eofOk, closeOk)
         r == IF s.hasHdr THEN c
              ELSE [s |-> s, file |-> file, rv |-> NS_ERROR_ILLEGAL_VALUE,
                    rolledBack |-> "none"]
     IN  /\ streams' = [streams EXCEPT ![id] =
                          [r.s EXCEPT !.held = FALSE, !.phase = "other"]]
         /\ file' = r.file
         /\ table' = IF r.rv = NS_OK THEN Remove(table, Folder) ELSE table
         /\ last' = [Call("DiscardNewMessage", id, r, s) EXCEPT
                       !.rolledBack = r.rolledBack]
  /\ calls' = calls + 1
  /\ UNCHANGED folder

InitStore ==
  /\ file \in PriorContents
  /\ streams = [id \in StreamIds |-> NoStream]
  /\ table = EmptyTable
  /\ last = NoCall
  /\ calls = 0
  /\ folder = NoFolder

StoreGetNew ==
  calls < MaxStoreCalls
  /\ \E fail \in GetFailures :
       \E hasHdr, tellOk \in (IF fail = "none" THEN BOOLEAN ELSE {TRUE}) :
         GetNewMsgOutputStream(hasHdr, fail, tellOk)

StoreWrite ==
  calls < MaxStoreCalls
  /\ \E id \in StreamIds, buf \in StoreChunks, accepts \in SinkAccepts :
       /\ Issued(id) /\ streams[id].held
       /\ WriteCall(id, buf, accepts)

StoreFinish ==
  calls < MaxStoreCalls
  /\ \E id \in StreamIds :
       /\ Issued(id)
       /\ \E accepts \in SinkAccepts, rb \in RollbackOutcomes,
             closeOk \in CloseOutcomes(id), oobIsLF \in OobOutcomes(id) :
            FinishNewMessage(id, accepts, rb[1], rb[2], closeOk, oobIsLF)

StoreDiscard ==
  calls < MaxStoreCalls
  /\ \E id \in StreamIds :
       /\ Issued(id)
       /\ \E rb \in RollbackOutcomes, closeOk \in CloseOutcomes(id) :
            DiscardNewMessage(id, rb[1], rb[2], closeOk)

NextStore == StoreGetNew \/ StoreWrite \/ StoreFinish \/ StoreDiscard

SpecStore == InitStore /\ [][NextStore]_vars

(***************************************************************************)
(* nsMsgBrkMBoxStore: rewriting flags and keywords of stored messages      *)
(***************************************************************************)
MaxFlagCalls == 1      \* ChangeFlags / ChangeKeywords calls in one behaviour

NS_ERROR_INVALID_ARG == "NS_ERROR_INVALID_ARG"

\* A uint32_t of flags is the set of the positions of its bits that are set.
Bits32 == 0..31
Read == {0}
Expunged == {3}
RuntimeOnly == {5}
Offline == {7}
New == {16}

HexDigits ==
  <<"0", "1", "2", "3", "4", "5", "6", "7", "8", "9", "a", "b", "c", "d", "e", "f">>

\* The hex digit of bits 4k .. 4k+3 of flags.
Nibble(flags, k) ==
  HexDigits[1 + (IF 4 * k \in flags THEN 1 ELSE 0)
              + (IF 4 * k + 1 \in flags THEN 2 ELSE 0)
              + (IF 4 * k + 2 \in flags THEN 4 ELSE 0)
              + (IF 4 * k + 3 \in flags THEN 8 ELSE 0)]

\* "%4.4x" of the low 16 bits and "%8.8x" of the high 16 bits of flags.
Hex4(flags) ==
  <<Nibble(flags, 3), Nibble(flags, 2), Nibble(flags, 1), Nibble(flags, 0)>>
Hex8(flags) ==
  <<Nibble(flags, 7), Nibble(flags, 6), Nibble(flags, 5), Nibble(flags, 4),
    "0", "0", "0", "0">>

X_MOZILLA_STATUS ==
  <<"X", "-", "M", "o", "z", "i", "l", "l", "a", "-", "S", "t", "a", "t", "u", "s", ":", " ">>
X_MOZILLA_STATUS2 ==
  <<"X", "-", "M", "o", "z", "i", "l", "l", "a", "-", "S", "t", "a", "t", "u", "s", "2", ":", " ">>
X_MOZILLA_KEYS ==
  <<"X", "-", "M", "o", "z", "i", "l", "l", "a", "-", "K", "e", "y", "s", ":", " ">>

\* Width of the space reserved for the value of X-Mozilla-Keys.
KeysWidth == 3

RECURSIVE Pad(_, _)
Pad(s, w) == IF Len(s) >= w THEN s ELSE Pad(Append(s, " "), w)

\* A stored message: envelope line, the legacy headers, a one-line body and
\* the blank line that ends the message.
StoredMsg(flags, keys) ==
  buildFromLine(<<>>)
    \o X_MOZILLA_STATUS \o Hex4(flags) \o <<LF>>
    \o X_MOZILLA_STATUS2 \o Hex8(flags) \o <<LF>>
    \o X_MOZILLA_KEYS \o Pad(keys, KeysWidth) \o <<LF>>
    \o <<LF>> \o <<"b", LF>> \o <<LF>>

\* storeToken.ToInteger64(&rv): the value of a decimal string, -1 when the
\* string is not one.
DigitValue(c) == CHOOSE d \in 0..9 : Digits[d + 1] = c

RECURSIVE ToInteger64(_)
ToInteger64(s) ==
  IF s = <<>> \/ \E i \in 1..Len(s) : \A d \in 1..10 : Digits[d] # s[i] THEN -1
  ELSE IF Len(s) = 1 THEN DigitValue(s[1])
  ELSE 10 * ToInteger64(SubSeq(s, 1, Len(s) - 1)) + DigitValue(s[Len(s)])

\* The bytes of f at offset pos are those of s.
HasAt(f, pos, s) ==
  /\ pos + Len(s) <= Len(f)
  /\ \A i \in 1..Len(s) : f[pos + i] = s[i]

\* Offset of the line after the one that starts at offset pos.
NextLine(f, pos) == FindEol(f, pos + 1)

\* Offset of the value of header `name` in the header block whose first
\* header line starts at offset pos, -1 when the block has none.
RECURSIVE FindHeader(_, _, _)
FindHeader(f, pos, name) ==
  IF pos >= Len(f) \/ f[pos + 1] = LF \/ HasAt(f, pos, CRLF) THEN -1
  ELSE IF HasAt(f, pos, name) THEN pos + Len(name)
  ELSE FindHeader(f, NextLine(f, pos), name)

\* Offset of the first header line of the message read from offset pos: the
\* "From " line, when there is one, is skipped.
HeadersStart(f, pos) ==
  IF HasAt(f, pos, sep) THEN NextLine(f, pos) ELSE pos

\* Write data at offset off.
WriteAt(f, off, data) ==
  IF off > Len(f)
  THEN f \o [i \in 1..(off - Len(f)) |-> NUL] \o data
  ELSE SubSeq(f, 1, off) \o data \o SubSeq(f, off + Len(data) + 1, Len(f))

\* RewriteMsgFlags(seekable, flags) with the handle at offset pos: the values
\* of X-Mozilla-Status and X-Mozilla-Status2 of the message read from there
\* are overwritten in place.  ok: the reads and writes on the handle succeed.
RewriteMsgFlags(f, pos, flags, ok) ==
  LET start == HeadersStart(f, pos)
      statusOff == FindHeader(f, start, X_MOZILLA_STATUS)
      status2Off == FindHeader(f, start, X_MOZILLA_STATUS2)
      f1 == IF statusOff >= 0 THEN WriteAt(f, statusOff, Hex4(flags)) ELSE f
      f2 == IF status2Off >= 0 THEN WriteAt(f1, status2Off, Hex8(flags)) ELSE f1
  IN  IF ok
      THEN [file |-> f2, rv |-> NS_OK,
            pos |-> IF status2Off >= 0 THEN status2Off + 8
                    ELSE IF statusOff >= 0 THEN statusOff + 4 ELSE pos]
      ELSE [file |-> f, rv |-> NS_ERROR_FAILURE, pos |-> pos]

\* The flags ChangeFlags works out for a header with the flags hdrFlags.
FlagsToWrite(hdrFlags, aFlags, aSet) ==
  LET flags == hdrFlags \ (RuntimeOnly \cup Offline)
  IN  IF aSet THEN flags \cup aFlags ELSE flags \ aFlags

\* A call in progress on the batch aHdrArray: the file, the offset of the
\* one handle, the offsets the messages were looked for at and the flag
\* values passed to the rewrite, in the order of the visits.
Batch(f) ==
  [file |-> f, pos |-> 0, rv |-> NS_OK, returned |-> FALSE, failed |-> FALSE,
   visited |-> <<>>, passed |-> <<>>, grow |-> {}]

\* fail: <<"seek", i>> or <<"rewrite", i>> when that step of visit i fails.
RECURSIVE ChangeFlagsLoop(_, _, _, _, _, _)
ChangeFlagsLoop(b, aHdrArray, i, aFlags, aSet, fail) ==
  IF i > Len(aHdrArray) THEN b
  ELSE
    LET msgHdr == folder.hdrs[aHdrArray[i]]
        flags == FlagsToWrite(msgHdr.flags, aFlags, aSet)
        msgOffset == ToInteger64(msgHdr.storeToken)
        \* the result of Seek() is dropped: rv still holds the status of
        \* ToInteger64
        pos1 == IF fail = <<"seek", i>> THEN b.pos ELSE msgOffset
        r == RewriteMsgFlags(b.file, pos1, flags, fail # <<"rewrite", i>>)
        b1 == [b EXCEPT !.file = r.file, !.pos = r.pos,
                        !.visited = Append(@, pos1),
                        !.passed = Append(@, flags)]
    IN  IF msgOffset < 0
        THEN [b EXCEPT !.rv = NS_ERROR_ILLEGAL_VALUE, !.returned = TRUE]
        ELSE IF r.rv # NS_OK THEN [b1 EXCEPT !.failed = TRUE]
        ELSE ChangeFlagsLoop(b1, aHdrArray, i + 1, aFlags, aSet, fail)

\* ParseString(aKeywords, ' ', ...): the words of s between spaces.
RECURSIVE ParseString(_)
ParseString(s) ==
  IF s = <<>> THEN <<>>
  ELSE IF s[1] = " " THEN ParseString(Tail(s))
  ELSE LET n == CHOOSE k \in 1..Len(s) :
                  /\ \A i \in 1..k : s[i] # " "
                  /\ (k = Len(s) \/ s[k + 1] = " ")
       IN  <<SubSeq(s, 1, n)>> \o ParseString(SubSeq(s, n + 1, Len(s)))

RECURSIVE JoinWords(_)
JoinWords(ws) ==
  IF ws = <<>> THEN <<>>
  ELSE IF Len(ws) = 1 THEN ws[1]
  ELSE ws[1] \o <<" ">> \o JoinWords(Tail(ws))

Contains(ws, w) == \E i \in 1..Len(ws) : ws[i] = w

\* ws without the words of `remove`, followed by the words of `add` it lacks.
RECURSIVE Without(_, _)
Without(ws, remove) ==
  IF ws = <<>> THEN <<>>
  ELSE (IF Contains(remove, ws[1]) THEN <<>> ELSE <<ws[1]>>)
         \o Without(Tail(ws), remove)

RECURSIVE WithAdded(_, _)
WithAdded(ws, add) ==
  IF add = <<>> THEN ws
  ELSE WithAdded(IF Contains(ws, add[1]) THEN ws ELSE Append(ws, add[1]), Tail(add))

\* ChangeKeywordsHelper(seekable, keywordsToAdd, keywordsToRemove,
\* notEnoughRoom) with the handle at offset pos: the value of X-Mozilla-Keys
\* of the message read from there is rewritten within its reserved width.
ChangeKeywordsHelper(f, pos, keywordsToAdd, keywordsToRemove, ok) ==
  LET keysOff == FindHeader(f, HeadersStart(f, pos), X_MOZILLA_KEYS)
      width == NextLine(f, keysOff) - 1 - keysOff
      current == ParseString(SubSeq(f, keysOff + 1, keysOff + width))
      wanted == JoinWords(WithAdded(Without(current, keywordsToRemove),
                                    keywordsToAdd))
  IN  IF ~ok
      THEN [file |-> f, rv |-> NS_ERROR_FAILURE, pos |-> pos, notEnoughRoom |-> FALSE]
      ELSE IF keysOff < 0
      THEN [file |-> f, rv |-> NS_OK, pos |-> pos, notEnoughRoom |-> FALSE]
      ELSE IF Len(wanted) > width
      THEN [file |-> f, rv |-> NS_OK, pos |-> keysOff, notEnoughRoom |-> TRUE]
      ELSE [file |-> WriteAt(f, keysOff, Pad(wanted, width)), rv |-> NS_OK,
            pos |-> keysOff + width, notEnoughRoom |-> FALSE]

RECURSIVE ChangeKeywordsLoop(_, _, _, _, _, _)
ChangeKeywordsLoop(b, aHdrArray, i, keywordsToAdd, keywordsToRemove, fail) ==
  IF i > Len(aHdrArray) THEN b
  ELSE
    LET msgHdr == folder.hdrs[aHdrArray[i]]
        msgStart == ToInteger64(msgHdr.storeToken)
        pos1 == IF fail = <<"seek", i>> THEN b.pos ELSE msgStart
        r == ChangeKeywordsHelper(b.file, pos1, keywordsToAdd, keywordsToRemove,
                                  fail # <<"rewrite", i>>)
        b1 == [b EXCEPT !.file = r.file, !.pos = r.pos,
                        !.visited = Append(@, pos1),
                        !.grow = IF r.notEnoughRoom THEN @ \cup {aHdrArray[i]} ELSE @]
    IN  IF msgStart < 0
        THEN [b EXCEPT !.rv = NS_ERROR_ILLEGAL_VALUE, !.returned = TRUE]
        ELSE IF r.rv # NS_OK
        THEN [b1 EXCEPT !.rv = r.rv, !.returned = TRUE, !.failed = TRUE]
        ELSE ChangeKeywordsLoop(b1, aHdrArray, i + 1, keywordsToAdd,
                                keywordsToRemove, fail)

\* The arguments of the calls: header arrays over the two stored messages,
\* flag masks, keyword strings, and the step of a visit that fails.
HdrArrays == { <<>>, <<1>>, <<2>>, <<1, 2>>, <<2, 1>> }
FlagArgs == { Read, RuntimeOnly, New }
KeywordArgs == { <<"k">>, <<"j", " ", "m">> }
HdrFlags == { {}, Read \cup RuntimeOnly \cup Offline }
StoredKeys == { <<>>, <<"k">> }

Failures(aHdrArray) ==
  { <<"none", 0>> } \cup
  ({"seek", "rewrite"} \X { i \in {1, Len(aHdrArray)} : i <= Len(aHdrArray) })

\* SetDBValid(aHdrArray[0]): SetSummaryFileValid(folder, db, true) records
\* the size of the mbox file in the folder info.
SetDBValid(f) == [folder EXCEPT !.folderSize = Len(f)]

\* ChangeFlags(aHdrArray, aFlags, aSet)
ChangeFlags(aHdrArray, aFlags, aSet, fail) ==
  LET b == ChangeFlagsLoop(Batch(file), aHdrArray, 1, aFlags, aSet, fail)
  IN  /\ file' = IF aHdrArray = <<>> THEN file ELSE b.file
      /\ folder' = IF aHdrArray = <<>> \/ b.returned THEN folder
                   ELSE SetDBValid(b.file)
      /\ last' = [op |-> "ChangeFlags",
                  rv |-> IF aHdrArray = <<>> THEN NS_ERROR_INVALID_ARG ELSE b.rv,
                  aHdrArray |-> aHdrArray,
                  handles |-> IF aHdrArray = <<>> THEN 0 ELSE 1,
                  visited |-> b.visited, passed |-> b.passed,
                  failed |-> b.failed, fail |-> fail[1]]
      /\ calls' = calls + 1
      /\ UNCHANGED <<streams, table>>

\* ChangeKeywords(aHdrArray, aKeywords, aAdd)
ChangeKeywords(aHdrArray, aKeywords, aAdd, fail) ==
  LET words == ParseString(aKeywords)
      b == ChangeKeywordsLoop(Batch(file), aHdrArray, 1,
                              IF aAdd THEN words ELSE <<>>,
                              IF aAdd THEN <<>> ELSE words, fail)
      marked == [i \in DOMAIN folder.hdrs |->
                   [folder.hdrs[i] EXCEPT !.growKeywords = @ \/ i \in b.grow]]
  IN  /\ file' = IF aHdrArray = <<>> THEN file ELSE b.file
      /\ folder' = IF aHdrArray = <<>> THEN folder
                   ELSE IF b.returned THEN [folder EXCEPT !.hdrs = marked]
                   ELSE [SetDBValid(b.file) EXCEPT !.hdrs = marked]
      /\ last' = [op |-> "ChangeKeywords",
                  rv |-> IF aHdrArray = <<>> THEN NS_ERROR_INVALID_ARG ELSE b.rv,
                  aHdrArray |-> aHdrArray,
                  handles |-> IF aHdrArray = <<>> THEN 0 ELSE 1,
                  visited |-> b.visited, passed |-> <<>>,
                  failed |-> b.failed, fail |-> fail[1]]
      /\ calls' = calls + 1
      /\ UNCHANGED <<streams, table>>

\* An mbox of two stored messages and the database headers of both.
InitFlags ==
  /\ \E k \in StoredKeys, h \in HdrFlags :
       LET m1 == StoredMsg({}, k)
           m2 == StoredMsg({}, <<>>)
       IN  /\ file = m1 \o m2
           /\ folder = [hdrs |-> << [flags |-> h, storeToken |-> Decimal(0),
                                     growKeywords |-> FALSE],
                                    [flags |-> h, storeToken |-> Decimal(Len(m1)),
                                     growKeywords |-> FALSE] >>,
                        compacting |-> FALSE,
                        folderSize |-> 0]
  /\ streams = [id \in StreamIds |-> NoStream]
  /\ table = EmptyTable
  /\ last = NoCall
  /\ calls = 0

FlagsChange ==
  calls < MaxFlagCalls
  /\ \E aHdrArray \in HdrArrays, aFlags \in FlagArgs, aSet \in BOOLEAN :
       \E fail \in Failures(aHdrArray) :
         ChangeFlags(aHdrArray, aFlags, aSet, fail)

KeywordsChange ==
  calls < MaxFlagCalls
  /\ \E aHdrArray \in HdrArrays, aKeywords \in KeywordArgs, aAdd \in BOOLEAN :
       \E fail \in Failures(aHdrArray) :
         ChangeKeywords(aHdrArray, aKeywords, aAdd, fail)

\* DeleteMessages(aHdrArray)
DeleteMessages(aHdrArray, fail) == ChangeFlags(aHdrArray, Expunged, TRUE, fail)

FlagsDelete ==
  calls < MaxFlagCalls
  /\ \E aHdrArray \in HdrArrays :
       \E fail \in Failures(aHdrArray) : DeleteMessages(aHdrArray, fail)

NextFlags == FlagsChange \/ KeywordsChange \/ FlagsDelete

SpecFlags == InitFlags /\ [][NextFlags]_vars

(***************************************************************************)
(* nsMsgBrkMBoxStore: compaction of a folder while messages are delivered  *)
(***************************************************************************)
MaxCompactCalls == 4   \* store calls and compactor steps in one behaviour

\* AsyncCompact(folder, compactListener, patchXMozillaHeaders): a compactor
\* is created and begun; the store keeps no record of it.
AsyncCompact(beginOk) ==
  /\ ~folder.compacting
  /\ folder' = IF beginOk
               THEN [folder EXCEPT !.compacting = TRUE, !.phase = "copying",
                                   !.copied = <<>>]
               ELSE folder
  /\ last' = [NoCall EXCEPT !.op = "AsyncCompact",
                            !.rv = IF beginOk THEN NS_OK ELSE NS_ERROR_FAILURE]
  /\ calls' = calls + 1
  /\ UNCHANGED <<file, streams, table>>

\* The compactor has walked the source mbox: the bytes it has at that
\* moment are in the new file.
CompactorCopy ==
  /\ folder.compacting /\ folder.phase = "copying"
  /\ folder' = [folder EXCEPT !.phase = "copied", !.copied = file]
  /\ last' = [NoCall EXCEPT !.op = "CompactorCopy"]
  /\ calls' = calls + 1
  /\ UNCHANGED <<file, streams, table>>

\* The compactor replaces the mbox with the new file and is done.
CompactorSwap ==
  /\ folder.compacting /\ folder.phase = "copied"
  /\ file' = folder.copied
  /\ folder' = [folder EXCEPT !.compacting = FALSE, !.phase = "idle",
                              !.copied = <<>>]
  /\ last' = [NoCall EXCEPT !.op = "CompactorSwap"]
  /\ calls' = calls + 1
  /\ UNCHANGED <<streams, table>>

InitCompact ==
  /\ file \in PriorContents
  /\ streams = [id \in StreamIds |-> NoStream]
  /\ table = EmptyTable
  /\ last = NoCall
  /\ calls = 0
  /\ folder = [hdrs |-> <<>>, compacting |-> FALSE, phase |-> "idle",
               copied |-> <<>>]

CompactBegin ==
  calls < MaxCompactCalls /\ \E beginOk \in BOOLEAN : AsyncCompact(beginOk)

CompactCopy == calls < MaxCompactCalls /\ CompactorCopy

CompactSwap == calls < MaxCompactCalls /\ CompactorSwap

CompactGetNew ==
  calls < MaxCompactCalls
  /\ \E hasHdr \in BOOLEAN : GetNewMsgOutputStream(hasHdr, "none", TRUE)

CompactWrite ==
  calls < MaxCompactCalls
  /\ \E id \in StreamIds, buf \in StoreChunks :
       /\ Issued(id) /\ streams[id].held
       /\ WriteCall(id, buf, -1)

CompactFinishMsg ==
  calls < MaxCompactCalls
  /\ \E id \in StreamIds :
       /\ Issued(id)
       /\ \E oobIsLF \in OobOutcomes(id) :
            FinishNewMessage(id, -1, TRUE, TRUE, TRUE, oobIsLF)

CompactDiscardMsg ==
  calls < MaxCompactCalls
  /\ \E id \in StreamIds :
       /\ Issued(id)
       /\ DiscardNewMessage(id, TRUE, TRUE, TRUE)

NextCompact ==
  \/ CompactBegin
  \/ CompactCopy
  \/ CompactSwap
  \/ CompactGetNew
  \/ CompactWrite
  \/ CompactFinishMsg
  \/ CompactDiscardMsg

SpecCompact == InitCompact /\ [][NextCompact]_vars

(***************************************************************************)
(* nsMsgBrkMBoxStore: validity of the folder summary                       *)
(***************************************************************************)
MaxSummaryCalls == 2   \* IsSummaryFileValid calls and pref changes

\* A uint32_t is the pair of its 16-bit halves.
U32(hi, lo) == [hi |-> hi, lo |-> lo]
Half == 65536

\* a - b in uint32_t arithmetic (modulo 2^32)
Sub32(a, b) ==
  LET borrow == IF a.lo < b.lo THEN 1 ELSE 0
  IN  U32((a.hi - b.hi - borrow + Half) % Half, (a.lo - b.lo + Half) % Half)

\* (int32_t)d is negative
IsNegative32(d) == d.hi >= 32768

INT32_MIN == U32(32768, 0)

\* The value of a uint32_t below 2^31.
ToInt(d) == d.hi * Half + d.lo

\* std::abs((int32_t)d) <= leeway; std::abs(INT32_MIN) is not defined, ubLeq
\* is what the comparison yields then.
AbsLeq(d, leeway, ubLeq) ==
  IF d = INT32_MIN THEN ubLeq
  ELSE IF IsNegative32(d) THEN ToInt(Sub32(U32(0, 0), d)) <= leeway
  ELSE ToInt(d) <= leeway

\* GetMailboxModProperties: size and modification time (seconds, truncated
\* to 32 bits, from a time in milliseconds) of the mbox file, 0 on errors.
\* mtime: the seconds modulo 2^32 and the milliseconds of the file's time.
GetMailboxModProperties(sizeOk, size, timeOk, mtime) ==
  [aSize |-> IF sizeOk THEN size ELSE 0,
   aDate |-> IF sizeOk /\ timeOk THEN U32(mtime.sec.hi, mtime.sec.lo)
             ELSE U32(0, 0)]

\* IsSummaryFileValid(aFolder, aDB, aResult): info is the folder info of the
\* database, g the static leeway and whether the pref has been read, pref
\* the pref mail.db_timestamp_leeway (whether it is set, and its value).
IsSummaryFileValid(isLocal, info, props, g, pref, ubLeq) ==
  LET read == ~g.gGotGlobalPrefs
      leeway == IF read /\ pref.set THEN pref.value ELSE g.gTimeStampLeeway
      g1 == [gGotGlobalPrefs |-> TRUE, gTimeStampLeeway |-> leeway]
  IN  IF ~isLocal THEN [aResult |-> TRUE, g |-> g]
      ELSE IF ~(info.folderSize = props.aSize /\ info.numUnreadMessages >= 0)
      THEN [aResult |-> FALSE, g |-> g]
      ELSE IF info.folderSize = 0 THEN [aResult |-> TRUE, g |-> g]
      ELSE IF leeway = 0
      THEN [aResult |-> info.folderDate = props.aDate, g |-> g1]
      ELSE [aResult |-> AbsLeq(Sub32(props.aDate, info.folderDate), leeway, ubLeq),
            g |-> g1]

\* Timestamps, sizes, unread counts and leeways the checks are made with.
Stamps == { U32(0, 0), U32(0, 60), U32(0, 61), U32(32768, 0), U32(65535, 65535) }
Sizes == { 0, 5 }
UnreadCounts == { -1, 0 }
Leeways == { 0, 60 }

SummaryCheck ==
  calls < MaxSummaryCalls
  /\ \E isLocal \in BOOLEAN, folderSize, size \in Sizes,
        numUnreadMessages \in UnreadCounts, folderDate, sec \in Stamps,
        timeOk \in BOOLEAN :
       LET info == [folderSize |-> folderSize,
                    numUnreadMessages |-> numUnreadMessages,
                    folderDate |-> folderDate]
           props == GetMailboxModProperties(TRUE, size, timeOk,
                                            [sec |-> sec, ms |-> 999])
       IN  \E ubLeq \in (IF Sub32(props.aDate, folderDate) = INT32_MIN
                         THEN BOOLEAN ELSE {FALSE}) :
             LET r == IsSummaryFileValid(isLocal, info, props, folder.g,
                                         folder.pref, ubLeq)
             IN  /\ folder' = [folder EXCEPT !.g = r.g]
                 /\ last' = [op |-> "IsSummaryFileValid", isLocal |-> isLocal,
                             info |-> info, size |-> size, timeOk |-> timeOk,
                             sec |-> sec, aResult |-> r.aResult]
  /\ calls' = calls + 1
  /\ UNCHANGED <<file, streams, table>>

\* The user sets the pref mail.db_timestamp_leeway.
SummarySetPref ==
  calls < MaxSummaryCalls
  /\ \E v \in Leeways : folder' = [folder EXCEPT !.pref = [set |-> TRUE, value |-> v]]
  /\ last' = [op |-> "SetPref"]
  /\ calls' = calls + 1
  /\ UNCHANGED <<file, streams, table>>

InitSummary ==
  /\ file = <<>>
  /\ streams = [id \in StreamIds |-> NoStream]
  /\ table = EmptyTable
  /\ last = NoCall
  /\ calls = 0
  /\ \E set \in BOOLEAN, v \in Leeways :
       folder = [hdrs |-> <<>>, compacting |-> FALSE,
                 g |-> [gGotGlobalPrefs |-> FALSE, gTimeStampLeeway |-> 60],
                 pref |-> [set |-> set, value |-> IF set THEN v ELSE 0]]

NextSummary == SummaryCheck \/ SummarySetPref

SpecSummary == InitSummary /\ [][NextSummary]_vars

(***************************************************************************)
(* nsMsgBrkMBoxStore: space available for a delivery                       *)
(***************************************************************************)
MaxSpaceCalls == 2   \* HasSpaceAvailable calls and pref changes

NS_ERROR_FILE_TOO_BIG == "NS_ERROR_FILE_TOO_BIG"

\* An int64_t count of bytes is the pair of its whole MiB and the bytes
\* beyond them, so that sizes above 2^31 can be written; the sizes used stay
\* far below 2^63.
MiB == 1048576
Size(mib, b) == [mib |-> mib, b |-> b]

\* fileSize + aSpaceRequested
AddSize(x, y) ==
  Size(x.mib + y.mib + ((x.b + y.b) \div MiB), (x.b + y.b) % MiB)

\* x < y
LessSize(x, y) == x.mib < y.mib \/ (x.mib = y.mib /\ x.b < y.b)

\* 0xFFC00000LL = 4 GiB - 4 MiB
MboxCap == Size(4092, 0)

\* The same check with <= in place of <.
HasSpaceAvailableCapInclusive(pathOk, allow4GBfolders, sizeOk, fileSize, aSpaceRequested, diskHas) ==
  IF ~pathOk THEN [rv |-> NS_ERROR_FAILURE, set |-> FALSE, aResult |-> FALSE]
  ELSE IF ~allow4GBfolders /\ ~sizeOk
  THEN [rv |-> NS_ERROR_FAILURE, set |-> FALSE, aResult |-> FALSE]
  ELSE IF ~allow4GBfolders /\ LessSize(MboxCap, AddSize(fileSize, aSpaceRequested))
  THEN [rv |-> NS_ERROR_FILE_TOO_BIG, set |-> TRUE, aResult |-> FALSE]
  ELSE IF ~diskHas
  THEN [rv |-> NS_ERROR_FILE_NO_DEVICE_SPACE, set |-> TRUE, aResult |-> FALSE]
  ELSE [rv |-> NS_OK, set |-> TRUE, aResult |-> TRUE]

\* HasSpaceAvailable(aFolder, aSpaceRequested, aResult).  pathOk, sizeOk:
\* GetFilePath and GetFileSize succeed; diskHas: the result of
\* DiskSpaceAvailableInStore; set: *aResult has been assigned.
HasSpaceAvailable(pathOk, allow4GBfolders, sizeOk, fileSize, aSpaceRequested, diskHas) ==
  IF ~pathOk THEN [rv |-> NS_ERROR_FAILURE, set |-> FALSE, aResult |-> FALSE]
  ELSE IF ~allow4GBfolders /\ ~sizeOk
  THEN [rv |-> NS_ERROR_FAILURE, set |-> FALSE, aResult |-> FALSE]
  ELSE IF ~allow4GBfolders /\ ~LessSize(AddSize(fileSize, aSpaceRequested), MboxCap)
  THEN [rv |-> NS_ERROR_FILE_TOO_BIG, set |-> TRUE, aResult |-> FALSE]
  ELSE IF ~diskHas
  THEN [rv |-> NS_ERROR_FILE_NO_DEVICE_SPACE, set |-> TRUE, aResult |-> FALSE]
  ELSE [rv |-> NS_OK, set |-> TRUE, aResult |-> TRUE]

\* Sizes of the mbox file and of the space asked for.
FileSizes == { Size(0, 0), Size(4091, MiB - 1), Size(4092, 0), Size(5000, 7) }
Requests == { Size(0, 0), Size(0, 1), Size(1, 0) }

SpaceCheck ==
  calls < MaxSpaceCalls
  /\ \E pathOk, sizeOk, diskHas \in BOOLEAN, fileSize \in FileSizes,
        aSpaceRequested \in Requests :
       LET r == HasSpaceAvailable(pathOk, folder.allow4GBfolders, sizeOk,
                                  fileSize, aSpaceRequested, diskHas)
       IN  last' = [op |-> "HasSpaceAvailable", rv |-> r.rv, set |-> r.set,
                    aResult |-> r.aResult, pathOk |-> pathOk, sizeOk |-> sizeOk,
                    allow4GBfolders |-> folder.allow4GBfolders,
                    fileSize |-> fileSize, aSpaceRequested |-> aSpaceRequested,
                    diskHas |-> diskHas]
  /\ calls' = calls + 1
  /\ UNCHANGED <<file, streams, table, folder>>

\* The user sets the pref mailnews.allowMboxOver4GB.
SpaceSetPref ==
  calls < MaxSpaceCalls
  /\ \E v \in BOOLEAN : folder' = [folder EXCEPT !.allow4GBfolders = v]
  /\ last' = [op |-> "SetPref"]
  /\ calls' = calls + 1
  /\ UNCHANGED <<file, streams, table>>

InitSpace ==
  /\ file = <<>>
  /\ streams = [id \in StreamIds |-> NoStream]
  /\ table = EmptyTable
  /\ last = NoCall
  /\ calls = 0
  /\ folder = [hdrs |-> <<>>, compacting |-> FALSE, allow4GBfolders |-> TRUE]

NextSpace == SpaceCheck \/ SpaceSetPref

SpecSpace == InitSpace /\ [][NextSpace]_vars

(***************************************************************************)
(* nsMsgBrkMBoxStore: creating and copying folders                         *)
(***************************************************************************)
MaxFolderCalls == 2   \* CreateFolder and CopyFolder calls

NS_MSG_ERROR_INVALID_FOLDER_NAME == "NS_MSG_ERROR_INVALID_FOLDER_NAME"
NS_MSG_FOLDER_EXISTS == "NS_MSG_FOLDER_EXISTS"
NS_MSG_CANT_CREATE_FOLDER == "NS_MSG_CANT_CREATE_FOLDER"
NS_MSG_ERROR_FOLDER_SUMMARY_MISSING == "NS_MSG_ERROR_FOLDER_SUMMARY_MISSING"
NS_MSG_ERROR_FOLDER_SUMMARY_OUT_OF_DATE == "NS_MSG_ERROR_FOLDER_SUMMARY_OUT_OF_DATE"

\* A folder is the path of names from a root folder to it.  The folder tree
\* is: subFolders, the folders registered in memory; files, the folders
\* whose mbox file is on disk; dbs, the folders that have a summary with
\* data.  Folder names are names NS_MsgHashIfNecessary leaves alone.
Under(p, q) == Len(q) >= Len(p) /\ SubSeq(q, 1, Len(p)) = p

\* aParent->AddSubfolder(name, child): fails for a name the parent has.
AddSubfolder(t, aParent, name) ==
  IF (aParent \o <<name>>) \in t.subFolders
  THEN [rv |-> NS_MSG_FOLDER_EXISTS, t |-> t]
  ELSE [rv |-> NS_OK,
        t |-> [t EXCEPT !.subFolders = @ \cup {aParent \o <<name>>}]]

\* DeleteStorage of a folder: its mbox file, its summary and its .sbd
\* directory with everything below.
DeleteStorage(t, f) ==
  [t EXCEPT !.files = { q \in @ : ~Under(f, q) },
            !.dbs = { q \in @ : ~Under(f, q) }]

\* Remove(true) of the .sbd directory of f: everything stored below f.
RemoveDirectory(t, f) ==
  [t EXCEPT !.files = { q \in @ : ~(Under(f, q) /\ q # f) },
            !.dbs = { q \in @ : ~(Under(f, q) /\ q # f) }]

\* aParent->PropagateDelete(child, deleteStorage): the child and the folders
\* below it leave the tree, with their storage when asked.
PropagateDelete(t, child, deleteStorage) ==
  LET t1 == [t EXCEPT !.subFolders = { q \in @ : ~Under(child, q) }]
  IN  IF deleteStorage THEN DeleteStorage(t1, child) ELSE t1

\* What the environment does during a CreateFolder: the step that fails (or
\* "none") and the status OpenFolderDB returns.
CreateOutcomes ==
  { [fail |-> f, open |-> NS_OK] :
      f \in {"none", "AddSubfolder", "GetFilePath", "CreateDirectoryForFolder",
             "Create", "msgDBService", "OpenFolderDB", "GetDBFolderInfo"} }
  \cup { [fail |-> f, open |-> NS_MSG_ERROR_FOLDER_SUMMARY_MISSING] :
           f \in {"none", "CreateNewDB", "GetDBFolderInfo"} }
  \cup { [fail |-> f, open |-> NS_MSG_ERROR_FOLDER_SUMMARY_OUT_OF_DATE] :
           f \in {"none", "unusedDB", "GetDBFolderInfo"} }

\* CreateFolder(aParent, aFolderName, aResult).  registered: AddSubfolder
\* has registered the child; undone: PropagateDelete has been called.
CreateFolder(t, aParent, aFolderName, e) ==
  LET child == aParent \o <<aFolderName>>
      add == AddSubfolder(t, aParent, aFolderName)
      t1 == add.t
      Undo(rv) == [rv |-> rv, t |-> PropagateDelete(t1, child, FALSE),
                   registered |-> TRUE, undone |-> TRUE]
      t2 == [t1 EXCEPT !.files = @ \cup {child}]
      \* the status after OpenFolderDB and CreateNewDB
      dbRv == IF e.fail \in {"OpenFolderDB", "CreateNewDB"} THEN NS_ERROR_FAILURE
              ELSE IF e.open = NS_MSG_ERROR_FOLDER_SUMMARY_MISSING THEN NS_OK
              ELSE e.open
      unusedDB == e.fail \notin {"OpenFolderDB", "CreateNewDB", "unusedDB"}
  IN  IF aFolderName = ""
      THEN [rv |-> NS_MSG_ERROR_INVALID_FOLDER_NAME, t |-> t,
            registered |-> FALSE, undone |-> FALSE]
      ELSE IF e.fail = "AddSubfolder" \/ add.rv # NS_OK
      THEN [rv |-> IF add.rv # NS_OK THEN add.rv ELSE NS_ERROR_FAILURE,
            t |-> t, registered |-> FALSE, undone |-> FALSE]
      ELSE IF e.fail = "GetFilePath" THEN Undo(NS_ERROR_FAILURE)
      ELSE IF e.fail = "CreateDirectoryForFolder" THEN Undo(NS_ERROR_FAILURE)
      ELSE IF child \in t1.files THEN Undo(NS_MSG_FOLDER_EXISTS)
      ELSE IF e.fail = "Create" THEN Undo(NS_ERROR_FAILURE)
      ELSE IF e.fail = "msgDBService"
      THEN [rv |-> NS_ERROR_FAILURE, t |-> t2,
            registered |-> TRUE, undone |-> FALSE]
      ELSE IF (dbRv = NS_OK \/ dbRv = NS_MSG_ERROR_FOLDER_SUMMARY_OUT_OF_DATE)
              /\ unusedDB
      THEN [rv |-> IF e.fail = "GetDBFolderInfo" THEN NS_ERROR_FAILURE ELSE NS_OK,
            t |-> [t2 EXCEPT !.dbs = @ \cup {child}],
            registered |-> TRUE, undone |-> FALSE]
      ELSE [rv |-> NS_MSG_CANT_CREATE_FOLDER,
            t |-> PropagateDelete(t2, child, TRUE),
            registered |-> TRUE, undone |-> TRUE]

\* The names a folder's subfolders can have, in the order GetSubFolders
\* lists them.
SubFolderNames == <<"a", "b">>

GetSubFolders(t, f) ==
  LET Has(n) == (f \o <<n>>) \in t.subFolders
  IN  SelectSeq(SubFolderNames, Has)

\* What the environment does during a CopyFolder: the step that fails (or
\* "none"), whether the source's database is open and valid, and the
\* (1-based) subfolder whose copy fails, if any, with the step failing there.
CopySteps ==
  {"none", "GetFilePath", "Create", "CopyTo", "summaryCopyTo", "AddSubfolder",
   "msgDBService", "GetSubFolders", "parentPath"}

CopyOutcomes ==
  { [fail |-> f, summaryValid |-> v, sub |-> 0, subFail |-> "none"] :
      f \in CopySteps, v \in BOOLEAN }
  \cup { [fail |-> "none", summaryValid |-> v, sub |-> i, subFail |-> f] :
           v \in BOOLEAN, i \in 1..Len(SubFolderNames),
           f \in {"CopyTo", "AddSubfolder"} }

NoFailure == [fail |-> "none", summaryValid |-> FALSE, sub |-> 0, subFail |-> "none"]

\* The same decision without the test of copyStatus.
MoveCompletedUnchecked(aIsMoveFolder, copyStatus) == aIsMoveFolder

\* The source is removed when this holds.
MoveCompleted(aIsMoveFolder, copyStatus) ==
  aIsMoveFolder /\ copyStatus = NS_OK

RECURSIVE CopyFolder(_, _, _, _, _, _)
RECURSIVE CopySubFolders(_, _, _, _, _, _)

\* The loop over the subfolders: CopyFolderLocal of each into the new folder
\* (which copies it with CopyFolder, aIsMoveFolder false), stopping at the
\* first failure.
CopySubFolders(t, aSrcFolder, subs, i, newMsgFolder, e) ==
  IF i > Len(subs) THEN [copyStatus |-> NS_OK, t |-> t]
  ELSE LET sub == aSrcFolder \o <<subs[i]>>
           r == CopyFolder(t, sub, newMsgFolder, FALSE, "",
                           [NoFailure EXCEPT
                              !.fail = IF i = e.sub THEN e.subFail ELSE "none",
                              !.summaryValid = sub \in t.dbs])
       IN  IF r.rv # NS_OK THEN [copyStatus |-> r.rv, t |-> r.t]
           ELSE CopySubFolders(r.t, aSrcFolder, subs, i + 1, newMsgFolder, e)

\* CopyFolder(aSrcFolder, aDstFolder, aIsMoveFolder, aMsgWindow, aListener,
\* aNewName).  The new folder is taken to be a local mail folder and to have
\* its parent, as a folder made by AddSubfolder of a local folder is.
CopyFolder(t, aSrcFolder, aDstFolder, aIsMoveFolder, aNewName, e) ==
  LET folderName == IF aNewName = "" THEN Last(aSrcFolder) ELSE aNewName
      newMsgFolder == aDstFolder \o <<folderName>>
      Ret(rv, tt) == [rv |-> rv, t |-> tt, newMsgFolder |-> newMsgFolder,
                      copyStatus |-> NS_OK]
      \* 437: the mbox file
      t1 == [t EXCEPT !.files = @ \cup {newMsgFolder}]
      \* 447-459: the summary, when there is one with data
      t2 == IF aSrcFolder \in t.dbs
            THEN [t1 EXCEPT !.dbs = @ \cup {newMsgFolder}] ELSE t1
      add == AddSubfolder(t2, aDstFolder, folderName)
      t3 == add.t
      loop == CopySubFolders(t3, aSrcFolder, GetSubFolders(t3, aSrcFolder), 1,
                             newMsgFolder, e)
      t4 == loop.t
      \* returns made after the loop over the subfolders
      End(rv, tt) == [rv |-> rv, t |-> tt, newMsgFolder |-> newMsgFolder,
                      copyStatus |-> loop.copyStatus]
      \* 528-548: the source leaves the tree and its storage is deleted
      msgParent == Len(aSrcFolder) > 1
      t5 == IF msgParent
            THEN DeleteStorage(PropagateDelete(t4, aSrcFolder, FALSE), aSrcFolder)
            ELSE t4
      \* 554-565: the new folder leaves the tree and its storage is deleted
      \* 562-563: newPath, which names the source's leaf below the
      \* destination when 472 was executed, is removed as a directory
      t6 == LET d == DeleteStorage(PropagateDelete(t4, newMsgFolder, FALSE),
                                   newMsgFolder)
            IN  IF e.summaryValid
                THEN RemoveDirectory(d, aDstFolder \o <<Last(aSrcFolder)>>)
                ELSE d
  IN  IF e.fail = "GetFilePath" THEN Ret(NS_ERROR_FAILURE, t)
      ELSE IF e.fail = "Create" THEN Ret(NS_ERROR_FAILURE, t)
      ELSE IF e.fail = "CopyTo" \/ aSrcFolder \notin t.files
              \/ newMsgFolder \in t.files
      THEN Ret(NS_ERROR_FAILURE, t)
      ELSE IF aSrcFolder \in t.dbs
              /\ (e.fail = "summaryCopyTo" \/ newMsgFolder \in t.dbs)
      THEN Ret(NS_ERROR_FAILURE, t1)
      ELSE IF e.fail = "AddSubfolder" \/ add.rv # NS_OK
      THEN Ret(IF add.rv # NS_OK THEN add.rv ELSE NS_ERROR_FAILURE, t2)
      ELSE IF e.summaryValid /\ e.fail = "msgDBService"
      THEN Ret(NS_ERROR_FAILURE, t3)
      ELSE IF e.fail = "GetSubFolders" THEN Ret(NS_ERROR_FAILURE, t3)
      ELSE IF loop.copyStatus # NS_OK /\ ~aIsMoveFolder
      THEN End(loop.copyStatus, t4)
      ELSE IF MoveCompleted(aIsMoveFolder, loop.copyStatus)
      THEN End(IF msgParent /\ e.fail = "parentPath" THEN NS_ERROR_FAILURE
               ELSE NS_OK, t5)
      ELSE IF aIsMoveFolder /\ loop.copyStatus # NS_OK
      THEN End(NS_ERROR_FAILURE, t6)
      ELSE End(NS_OK, t4)

\* The folder trees the calls start from: roots P and D, the folder P/S with
\* its mbox file, with or without a summary and with 0 to 2 subfolders.
Tree(k, withDb) ==
  LET S == <<"P", "S">>
      subs == { S \o <<SubFolderNames[i]>> : i \in 1..k }
  IN  [subFolders |-> {<<"P">>, <<"D">>, S} \cup subs,
       files |-> {<<"P">>, <<"D">>, S} \cup subs,
       dbs |-> IF withDb THEN {<<"P">>, <<"D">>, S} \cup subs
               ELSE {<<"P">>, <<"D">>}]

TreeOf(fo) == [subFolders |-> fo.subFolders, files |-> fo.files, dbs |-> fo.dbs]

InitFolders ==
  /\ file = <<>>
  /\ streams = [id \in StreamIds |-> NoStream]
  /\ table = EmptyTable
  /\ last = NoCall
  /\ calls = 0
  /\ \E k \in 0..Len(SubFolderNames), withDb \in BOOLEAN :
       LET t == Tree(k, withDb)
       IN  folder = [hdrs |-> <<>>, compacting |-> FALSE,
                     subFolders |-> t.subFolders, files |-> t.files,
                     dbs |-> t.dbs]

FoldersCreate ==
  calls < MaxFolderCalls
  /\ \E aParent \in {<<"P">>, <<"D">>}, aFolderName \in {"", "S", "n"},
        e \in CreateOutcomes :
       LET r == CreateFolder(TreeOf(folder), aParent, aFolderName, e)
       IN  /\ folder' = [folder EXCEPT !.subFolders = r.t.subFolders,
                                       !.files = r.t.files, !.dbs = r.t.dbs]
           /\ last' = [op |-> "CreateFolder", rv |-> r.rv, aParent |-> aParent,
                       aFolderName |-> aFolderName, e |-> e,
                       registered |-> r.registered, undone |-> r.undone,
                       before |-> TreeOf(folder)]
  /\ calls' = calls + 1
  /\ UNCHANGED <<file, streams, table>>

FoldersCopy ==
  calls < MaxFolderCalls
  /\ \E aSrcFolder \in {<<"P", "S">>}, aDstFolder \in {<<"D">>},
        aIsMoveFolder \in BOOLEAN, aNewName \in {"", "n"}, e \in CopyOutcomes :
       /\ aSrcFolder \in folder.subFolders
       /\ e.summaryValid => aSrcFolder \in folder.dbs
       /\ e.fail = "msgDBService" => e.summaryValid
       /\ e.sub <= Len(GetSubFolders(TreeOf(folder), aSrcFolder))
       /\ LET r == CopyFolder(TreeOf(folder), aSrcFolder, aDstFolder,
                              aIsMoveFolder, aNewName, e)
          IN  /\ folder' = [folder EXCEPT !.subFolders = r.t.subFolders,
                                          !.files = r.t.files, !.dbs = r.t.dbs]
              /\ last' = [op |-> "CopyFolder", rv |-> r.rv,
                          aSrcFolder |-> aSrcFolder, aDstFolder |-> aDstFolder,
                          aIsMoveFolder |-> aIsMoveFolder, e |-> e,
                          newMsgFolder |-> r.newMsgFolder,
                          copyStatus |-> r.copyStatus,
                          before |-> TreeOf(folder)]
  /\ calls' = calls + 1
  /\ UNCHANGED <<file, streams, table>>

NextFolders == FoldersCreate \/ FoldersCopy

SpecFolders == InitFolders /\ [][NextFolders]_vars

(***************************************************************************)
(* nsParseMailbox: flags derived from the headers of a message             *)
(***************************************************************************)
\* MsgIsHex(s, n): the first n characters of s are hex digits.
MsgIsHex(s, n) ==
  /\ Len(s) >= n
  /\ \A i \in 1..n : \E d \in 1..16 : HexDigits[d] = s[i]

\* The value of a hex digit.
HexValue(c) == (CHOOSE d \in 1..16 : HexDigits[d] = c) - 1

\* MsgUnhex(s, n): the number the first n characters of s write, as the set
\* of its one bits.
MsgUnhex(s, n) ==
  { k \in 0..(4 * n - 1) :
      (HexValue(s[n - (k \div 4)]) \div (2 ^ (k % 4))) % 2 = 1 }

\* status.FindCharInSet(set) != kNotFound
FindCharInSet(s, set) == \E i \in 1..Len(s) : s[i] \in set

\* The flags ParseMsgHeaders returns for a header block whose last
\* X-Mozilla-Status, X-Mozilla-Status2 and Status values are mozstatus,
\* mozstatus2 and status (empty when the header is absent).
ParseMsgHeadersFlags(mozstatus, mozstatus2, status) ==
  LET flags1 ==
        IF Len(mozstatus) = 4 /\ MsgIsHex(mozstatus, 4)
        THEN MsgUnhex(mozstatus, 4) \ RuntimeOnly
        ELSE IF status # <<>>
        THEN LET r == IF FindCharInSet(status, {"R", "r", "O"}) THEN Read ELSE {}
             IN  IF FindCharInSet(status, {"N", "n", "U", "u"}) THEN r \ Read ELSE r
        ELSE {}
      \* 237-244: the value tested and decoded is mozstatus, and
      \* xflags |= xflags & 0xFFFF0000 leaves xflags as it is
      flags2 ==
        IF Len(mozstatus) = 8 /\ MsgIsHex(mozstatus, 8)
        THEN LET xflags == MsgUnhex(mozstatus, 8) \ RuntimeOnly
             IN  xflags \cup (xflags \cap 16..31)
        ELSE {}
  IN  flags1 \cup flags2

\* nsMsgMessageFlags::Attachment, 0x10000000
Attachment == {28}

\* The media types net_ParseContentType hands back for the Content-Type
\* values the parser is given ("" when the block has no Content-Type).
ContentTypes ==
  { "", "multipart/mixed", "MULTIPART/MIXED", "multpart/mixed", "text/plain" }

\* contentType.LowerCaseEqualsLiteral(lit), over ContentTypes
LowerCaseEqualsLiteral(s, lit) ==
  (IF s = "MULTIPART/MIXED" THEN "multipart/mixed" ELSE s) = lit

\* The flags of the record ParseMsgHeaders returns: the Content-Type branch
\* of the header callback (111-121) sets Attachment in out.flags, then line
\* 219 stores 0 in out.flags before the status headers are looked at.
ParseMsgHeaders(contentType, mozstatus, mozstatus2, status) ==
  LET inCallback ==
        IF LowerCaseEqualsLiteral(contentType, "multpart/mixed")
        THEN Attachment ELSE {}
      reset == inCallback \cap {}          \* 219: out.flags = 0
  IN  reset \cup ParseMsgHeadersFlags(mozstatus, mozstatus2, status)

\* Header values the parser is given.
StatusValues ==
  { <<>>, <<"0", "0", "0", "1">>, <<"0", "0", "2", "1">>, <<"0", "0", "0", "0">>,
    <<"0", "0", "z", "1">>, <<"0", "0", "0", "1", "0", "0", "0", "1">> }
Status2Values ==
  { <<>>, <<"0", "0", "0", "1", "0", "0", "0", "0">>,
    <<"0", "0", "8", "1", "0", "0", "2", "1">>, <<"0", "0", "0", "1">> }
BerkeleyValues == { <<>>, <<"R">>, <<"O">>, <<"N">>, <<"R", "N">>, <<"D">> }

InitParse ==
  /\ file = <<>>
  /\ streams = [id \in StreamIds |-> NoStream]
  /\ table = EmptyTable
  /\ calls = 0
  /\ folder = NoFolder
  /\ \E mozstatus \in StatusValues, mozstatus2 \in Status2Values,
        status \in BerkeleyValues, contentType \in ContentTypes :
       last = [op |-> "headers", mozstatus |-> mozstatus,
               mozstatus2 |-> mozstatus2, status |-> status,
               contentType |-> contentType]

ParseHeaders ==
  /\ last.op = "headers"
  /\ last' = [op |-> "ParseMsgHeaders", mozstatus |-> last.mozstatus,
              mozstatus2 |-> last.mozstatus2, status |-> last.status,
              contentType |-> last.contentType,
              flags |-> ParseMsgHeaders(last.contentType, last.mozstatus,
                                        last.mozstatus2, last.status)]
  /\ calls' = calls + 1
  /\ UNCHANGED <<file, streams, table, folder>>

NextParse == ParseHeaders

SpecParse == InitParse /\ [][NextParse]_vars

(***************************************************************************)
(* Reference definitions of the mbox format                                *)
(***************************************************************************)
\* The lines of s: each ends with its LF, the last one may have none.
RECURSIVE SplitLines(_)
SplitLines(s) ==
  IF s = <<>> THEN <<>>
  ELSE LET eol == FindEol(s, 1)
       IN  IF eol > Len(s) THEN <<s>>
           ELSE <<SubSeq(s, 1, eol)>> \o SplitLines(SubSeq(s, eol + 1, Len(s)))

\* line matches ^>*From
IsFromLine(line) ==
  \E k \in 0..Len(line) :
    /\ \A i \in 1..k : line[i] = GT
    /\ Len(line) >= k + 5
    /\ SubSeq(line, k + 1, k + 5) = <<"F", "r", "o", "m", " ">>

\* The message with one '>' put before every line that matches ^>*From
EscapeRef(m) ==
  LET ls == SplitLines(m)
  IN  Flatten([i \in 1..Len(ls) |->
                 IF IsFromLine(ls[i]) THEN <<GT>> \o ls[i] ELSE ls[i]])

IsBlankLine(line) == line = <<LF>> \/ line = CRLF

RECURSIVE DecodeLines(_)
DecodeLines(ls) ==
  IF ls = <<>> THEN <<>>
  ELSE IF IsBlankLine(ls[1]) /\ (Len(ls) = 1 \/ IsPrefix(sep, ls[2])) THEN <<>>
  ELSE (IF ls[1][1] = GT /\ IsFromLine(ls[1]) THEN Tail(ls[1]) ELSE ls[1])
         \o DecodeLines(Tail(ls))

\* The reader: the message that starts at the first byte of enc.
Malformed == <<"NS_MSG_ERROR_MBOX_MALFORMED">>
DecodeMsg(enc) ==
  LET ls == SplitLines(enc)
  IN  IF ls = <<>> \/ ~IsPrefix(sep, ls[1]) THEN Malformed
      ELSE DecodeLines(Tail(ls))

\* What one Write(m) and Finish() on a new stream over an empty sink leave.
OneShot(sender, m) ==
  LET s0 == [NewStream(<<>>, TRUE, TRUE) EXCEPT !.mEnvelopeSender = sender]
      w == Write(s0, <<>>, -1, m)
  IN  Finish(w.s, w.file, -1, TRUE, TRUE, TRUE, FALSE).file

\* The bytes of the file after the content the stream was constructed over.
Appended(id) == SubSeq(file, Len(streams[id].base) + 1, Len(file))

(***************************************************************************)
(* MboxMsgOutputStream::Emit, one sink write at a time                     *)
(***************************************************************************)
MaxEmitCalls == 2      \* Emit and Close calls in one behaviour

\* Byte strings handed to Emit.
EmitData == { <<>>, CRLF, <<"a", "b", "c">>, <<GT, "F", "r", "o", "m", " ">> }

\* An Emit() in progress: data + off is the `data` pointer, numBytes the
\* bytes still to pass, writes the number of mInner->Write calls made.
NoEmit ==
  [op |-> "none", data |-> <<>>, off |-> 0, numBytes |-> 0, writes |-> 0,
   base |-> <<>>, rv |-> NS_OK, running |-> FALSE]

\* One pass of the loop body with the data pointer kept where it is.
EmitIterationNoAdvance(e, f, ok, count) ==
  IF ~ok
  THEN [e |-> [e EXCEPT !.running = FALSE, !.rv = NS_ERROR_FILE_NO_DEVICE_SPACE,
                        !.writes = @ + 1],
        file |-> f, failed |-> TRUE]
  ELSE [e |-> [e EXCEPT !.numBytes = @ - count,
                        !.writes = @ + 1,
                        !.running = e.numBytes - count > 0],
        file |-> f \o SubSeq(e.data, e.off + 1, e.off + count),
        failed |-> FALSE]

\* One pass of the loop body (lines 125-134): mInner->Write(data, numBytes,
\* &count) fails, or accepts count bytes, 1 <= count <= numBytes.
EmitIteration(e, f, ok, count) ==
  IF ~ok
  THEN [e |-> [e EXCEPT !.running = FALSE, !.rv = NS_ERROR_FILE_NO_DEVICE_SPACE,
                        !.writes = @ + 1],
        file |-> f, failed |-> TRUE]
  ELSE [e |-> [e EXCEPT !.numBytes = @ - count,
                        !.off = @ + count,
                        !.writes = @ + 1,
                        !.running = e.numBytes - count > 0],
        file |-> f \o SubSeq(e.data, e.off + 1, e.off + count),
        failed |-> FALSE]

\* Entry of Emit(data, numBytes): the tests of lines 114-122, then the loop
\* is entered when there are bytes to pass.
EmitBegin ==
  /\ calls < MaxEmitCalls
  /\ ~last.running
  /\ \E data \in EmitData :
       LET s == streams[1]
           e == [NoEmit EXCEPT !.op = "Emit", !.data = data, !.base = file,
                               !.numBytes = Len(data)]
       IN  IF s.mState = eError
           THEN /\ last' = [e EXCEPT !.rv = s.mStatus]
                /\ UNCHANGED streams
           ELSE IF s.mState = eClosed
           THEN /\ last' = [e EXCEPT !.rv = NS_BASE_STREAM_CLOSED]
                /\ streams' = [streams EXCEPT ![1].mState = eError,
                                              ![1].mStatus = NS_BASE_STREAM_CLOSED]
           ELSE /\ last' = [e EXCEPT !.running = Len(data) > 0]
                /\ UNCHANGED streams
  /\ calls' = calls + 1
  /\ UNCHANGED <<file, table, folder>>

\* The next mInner->Write of the Emit in progress.
EmitWrite ==
  /\ last.running
  /\ \E ok \in BOOLEAN, count \in 1..last.numBytes :
       LET r == EmitIteration(last, file, ok, count)
       IN  /\ last' = r.e
           /\ file' = r.file
           /\ streams' = IF r.failed
                         THEN [streams EXCEPT ![1].mState = eError,
                                              ![1].mStatus = r.e.rv]
                         ELSE streams
  /\ UNCHANGED <<calls, table, folder>>

\* A Close() between two Emit calls.
EmitClose ==
  /\ calls < MaxEmitCalls
  /\ ~last.running
  /\ \E rb \in RollbackOutcomes :
       LET r == Close(streams[1], file, rb[1], rb[2], TRUE)
       IN  /\ streams' = [streams EXCEPT ![1] = r.s]
           /\ file' = r.file
           /\ last' = [NoEmit EXCEPT !.op = "Close", !.rv = r.rv]
  /\ calls' = calls + 1
  /\ UNCHANGED <<table, folder>>

InitEmit ==
  /\ file \in PriorContents
  /\ \E tellOk \in BOOLEAN :
       streams = [id \in StreamIds |->
                    IF id = 1 THEN NewStream(file, FALSE, tellOk) ELSE NoStream]
  /\ table = EmptyTable
  /\ last = NoEmit
  /\ calls = 0
  /\ folder = NoFolder

NextEmit == EmitBegin \/ EmitWrite \/ EmitClose

\* The thread inside Emit keeps running: the loop is not suspended between
\* two sink writes.
SpecEmit == InitEmit /\ [][NextEmit]_vars /\ WF_vars(EmitWrite)

(***************************************************************************)
(* nsParseMailMessageState: counting the body lines of a message           *)
(***************************************************************************)
MaxLineCalls == 5      \* ParseFolderLine / FinishHeader calls in one behaviour

ParseHeadersState == "ParseHeadersState"
ParseBodyState == "ParseBodyState"

\* uint16_t m_body_lines: the values it holds are 0 .. Width16 - 1
Width16 == 65536

\* EMPTY_MESSAGE_LINE(buf)
EMPTY_MESSAGE_LINE(line) == line = <<>> \/ line[1] \in {CR, LF, NUL}

\* Lines fed to the parser.
ParserLines == { <<LF>>, <<CR, LF>>, <<"a", LF>>, <<"S", ":", "x", CR, LF>> }

\* The parser after Clear() at the envelope position 0; received counts the
\* lines fed after the blank line that ended the header block.
NewParser ==
  [m_state |-> ParseHeadersState, m_body_lines |-> 0, m_position |-> 0,
   m_envelope_pos |-> 0, hasHdr |-> FALSE, received |-> 0,
   lineCount |-> -1, messageSize |-> -1]

\* The parser after n body lines <<"a", LF>> of a message with the header
\* block "S:x\r\n" "\r\n".
ParserInBody(n) ==
  [NewParser EXCEPT !.m_state = ParseBodyState,
                    !.m_body_lines = n % Width16,
                    !.m_position = 7 + 2 * n,
                    !.hasHdr = TRUE,
                    !.received = n]

\* ParseFolderLine(line, lineLength) on the parser p; ok: ParseHeaders() and
\* FinalizeHeaders() succeed (FinalizeHeaders creates m_newMsgHdr).
ParseFolderLine(p, line, ok) ==
  LET advanced == [p EXCEPT !.m_position = @ + Len(line)]
  IN  IF p.m_state = ParseHeadersState
      THEN IF EMPTY_MESSAGE_LINE(line)
           THEN IF ok
                THEN [p |-> [advanced EXCEPT !.m_state = ParseBodyState,
                                             !.hasHdr = TRUE],
                      rv |-> NS_OK]
                ELSE [p |-> p, rv |-> NS_ERROR_FAILURE]
           ELSE [p |-> advanced, rv |-> NS_OK]
      ELSE IF p.m_state = ParseBodyState
      THEN [p |-> [advanced EXCEPT !.m_body_lines = (@ + 1) % Width16,
                                   !.received = @ + 1],
            rv |-> NS_OK]
      ELSE [p |-> advanced, rv |-> NS_OK]

\* FinishHeader()
FinishHeader(p) ==
  IF p.hasHdr
  THEN [p EXCEPT !.messageSize = p.m_position - p.m_envelope_pos,
                 !.lineCount = p.m_body_lines]
  ELSE p

LinesParse ==
  /\ calls < MaxLineCalls
  /\ \E line \in ParserLines, ok \in BOOLEAN :
       /\ ~ok => (folder.m_state = ParseHeadersState /\ EMPTY_MESSAGE_LINE(line))
       /\ LET r == ParseFolderLine(folder, line, ok)
          IN  /\ folder' = r.p
              /\ last' = [op |-> "ParseFolderLine", rv |-> r.rv]
  /\ calls' = calls + 1
  /\ UNCHANGED <<file, streams, table>>

LinesFinish ==
  /\ calls < MaxLineCalls
  /\ folder' = FinishHeader(folder)
  /\ last' = [op |-> "FinishHeader", rv |-> NS_OK]
  /\ calls' = calls + 1
  /\ UNCHANGED <<file, streams, table>>

\* A parser at the start of a message, or in the body of one of which
\* Width16 - 3 lines have been fed.
InitLines ==
  /\ file = <<>>
  /\ streams = [id \in StreamIds |-> NoStream]
  /\ table = EmptyTable
  /\ last = [op |-> "none", rv |-> NS_OK]
  /\ calls = 0
  /\ folder \in { NewParser, ParserInBody(Width16 - 3) }

NextLines == LinesParse \/ LinesFinish

SpecLines == InitLines /\ [][NextLines]_vars

(***************************************************************************)
(* nsParseNewMailState::MoveIncorporatedMessage and the semaphore of the   *)
(* destination folder                                                      *)
(***************************************************************************)
MaxMoveCalls == 3      \* MoveIncorporatedMessage calls in one behaviour

NS_MSG_NOT_A_MAIL_FOLDER == "NS_MSG_NOT_A_MAIL_FOLDER"
NS_MSG_ERROR_WRITING_MAIL_FOLDER == "NS_MSG_ERROR_WRITING_MAIL_FOLDER"
NS_MSG_FOLDER_BUSY == "NS_MSG_FOLDER_BUSY"
NS_MSG_FOLDER_UNREADABLE == "NS_MSG_FOLDER_UNREADABLE"
NS_MSG_POP_FILTER_TARGET_ERROR == "NS_MSG_POP_FILTER_TARGET_ERROR"

\* Holders of the semaphore of a folder: nobody, the parser (myISupports)
\* or another writer.
NoHolder == "none"
Parser == "parser"
Other == "other"

\* destIFolder->AcquireSemaphore(holder): granted when nobody holds it.
AcquireSemaphore(sem, holder) ==
  IF sem = NoHolder THEN [sem |-> holder, rv |-> NS_OK]
  ELSE [sem |-> sem, rv |-> NS_MSG_FOLDER_BUSY]

\* destIFolder->ReleaseSemaphore(holder): given up when holder has it.
ReleaseSemaphore(sem, holder) == IF sem = holder THEN NoHolder ELSE sem

\* The destination folder and the position of the call in progress: pc is
\* "idle" when no call is running; acquired tells whether the call that
\* runs, or ran last, acquired the semaphore.
IdleMove(sem) ==
  [sem |-> sem, pc |-> "idle", rv |-> NS_OK, acquired |-> FALSE,
   isLocal |-> FALSE, moved |-> 0]

Return(p, rv) == [p EXCEPT !.pc = "idle", !.rv = rv]

\* Lines 1961-2001: the tests of the destination, then AcquireSemaphore.
MoveEnter(p, hasParent, canFileMessages, isLocal, destFolderTooBig) ==
  LET p0 == [p EXCEPT !.acquired = FALSE, !.isLocal = isLocal]
      a == AcquireSemaphore(p.sem, Parser)
  IN  IF ~hasParent \/ ~canFileMessages THEN Return(p0, NS_MSG_NOT_A_MAIL_FOLDER)
      ELSE IF isLocal /\ destFolderTooBig
      THEN Return(p0, NS_MSG_ERROR_WRITING_MAIL_FOLDER)
      ELSE IF a.rv # NS_OK THEN Return(p0, a.rv)
      ELSE [p0 EXCEPT !.sem = a.sem, !.acquired = TRUE, !.pc = "acquired"]

\* Lines 2002-2016 with the semaphore kept on the return for a destination
\* that is not a local folder.
MoveGetStreamKeepsHeld(p, streamOk) ==
  IF ~streamOk
  THEN Return([p EXCEPT !.sem = ReleaseSemaphore(@, Parser)],
              NS_MSG_FOLDER_UNREADABLE)
  ELSE IF ~p.isLocal
  THEN Return(p, NS_MSG_POP_FILTER_TARGET_ERROR)
  ELSE [p EXCEPT !.pc = "stream"]

\* Lines 2002-2016: GetLocalMsgStream, then the test of localFolder.
MoveGetStream(p, streamOk) ==
  IF ~streamOk
  THEN Return([p EXCEPT !.sem = ReleaseSemaphore(@, Parser)],
              NS_MSG_FOLDER_UNREADABLE)
  ELSE IF ~p.isLocal
  THEN Return([p EXCEPT !.sem = ReleaseSemaphore(@, Parser)],
              NS_MSG_POP_FILTER_TARGET_ERROR)
  ELSE [p EXCEPT !.pc = "stream"]

\* Lines 2021-2045: the destination database, the new header and
\* AppendMsgFromStream; dbOk, GetDatabaseWOReparse gives a database; hdrOk,
\* CopyHdrFromExistingHdr gives a header; appendOk, the append succeeds.
MoveAppend(p, dbOk, hdrOk, appendOk) ==
  IF dbOk /\ hdrOk /\ appendOk
  THEN [p EXCEPT !.pc = "written"]
  ELSE Return([p EXCEPT !.sem = ReleaseSemaphore(@, Parser)],
              NS_MSG_ERROR_WRITING_MAIL_FOLDER)

\* Lines 2047-2098: the bookkeeping after a successful append, with the
\* release at line 2076; discardOk, the status GetMsgStore leaves in rv.
MoveComplete(p, discardOk) ==
  Return([p EXCEPT !.sem = ReleaseSemaphore(@, Parser), !.moved = @ + 1],
         IF discardOk THEN NS_OK ELSE NS_ERROR_FAILURE)

MoveStep(op, p) ==
  /\ folder' = p
  /\ last' = [op |-> op, rv |-> p.rv]
  /\ UNCHANGED <<file, streams, table>>

MoveCall ==
  /\ calls < MaxMoveCalls
  /\ folder.pc = "idle"
  /\ \E hasParent, canFileMessages, isLocal, destFolderTooBig \in BOOLEAN :
       MoveStep("MoveEnter",
                MoveEnter(folder, hasParent, canFileMessages, isLocal,
                          destFolderTooBig))
  /\ calls' = calls + 1

MoveStream ==
  /\ folder.pc = "acquired"
  /\ \E streamOk \in BOOLEAN : MoveStep("MoveGetStream", MoveGetStream(folder, streamOk))
  /\ UNCHANGED calls

MoveWrite ==
  /\ folder.pc = "stream"
  /\ \E dbOk, hdrOk, appendOk \in BOOLEAN :
       MoveStep("MoveAppend", MoveAppend(folder, dbOk, hdrOk, appendOk))
  /\ UNCHANGED calls

MoveDone ==
  /\ folder.pc = "written"
  /\ \E discardOk \in BOOLEAN : MoveStep("MoveComplete", MoveComplete(folder, discardOk))
  /\ UNCHANGED calls

\* Another writer takes or gives up the semaphore between two calls.
OtherWriter ==
  /\ folder.pc = "idle"
  /\ calls < MaxMoveCalls
  /\ \E take \in BOOLEAN :
       MoveStep("Other",
                [folder EXCEPT !.sem = IF take THEN AcquireSemaphore(@, Other).sem
                                       ELSE ReleaseSemaphore(@, Other)])
  /\ UNCHANGED calls

InitMove ==
  /\ file = <<>>
  /\ streams = [id \in StreamIds |-> NoStream]
  /\ table = EmptyTable
  /\ last = [op |-> "none", rv |-> NS_OK]
  /\ calls = 0
  /\ folder \in { IdleMove(NoHolder), IdleMove(Other) }

NextMove == MoveCall \/ MoveStream \/ MoveWrite \/ MoveDone \/ OtherWriter

SpecMove == InitMove /\ [][NextMove]_vars

(***************************************************************************)
(* FolderDatabase: the folders and the index of them by path               *)
(***************************************************************************)
MaxDbCalls == 3        \* calls on the folder database in one behaviour
MaxDbFolders == 5      \* rows the folders table ever gets

\* Folder names, in the order mChildren is sorted by.
DbNames == <<"a", "b", "s", "t">>
NameRank(n) == CHOOSE i \in 1..Len(DbNames) : DbNames[i] = n

\* A Folder object that no row was read into yet.
NoObj == [mName |-> "", mParent |-> 0, mRoot |-> 0, mChildren |-> <<>>]

\* The database: the Folder objects by id (0 is nullptr), the keys of
\* sFoldersById, sFoldersByPath as a set of <<path, id>> entries with one
\* entry per path, and the id the next INSERT returns.
EmptyDb ==
  [objs |-> [i \in 1..MaxDbFolders |-> NoObj], byId |-> {}, byPath |-> {},
   nextId |-> 1]

\* Folder::GetPath(): the names along the mParent chain, from the root down.
RECURSIVE GetPath(_, _)
GetPath(objs, id) ==
  IF objs[id].mParent = 0 THEN <<objs[id].mName>>
  ELSE Append(GetPath(objs, objs[id].mParent), objs[id].mName)

\* aFolder->IsDescendantOf(aAncestor)
RECURSIVE IsDescendantOf(_, _, _)
IsDescendantOf(objs, id, ancestor) ==
  /\ objs[id].mParent # 0
  /\ \/ objs[id].mParent = ancestor
     \/ IsDescendantOf(objs, objs[id].mParent, ancestor)

\* sFoldersByPath.Get / Remove / InsertOrUpdate
PathGet(byPath, path) ==
  IF \E e \in byPath : e[1] = path
  THEN (CHOOSE e \in byPath : e[1] = path)[2] ELSE 0
PathRemove(byPath, path) == { e \in byPath : e[1] # path }
PathInsertOrUpdate(byPath, path, id) == PathRemove(byPath, path) \cup {<<path, id>>}

\* mChildren.RemoveElement / InsertElementAt / InsertElementSorted
RemoveElement(children, id) == SelectSeq(children, LAMBDA c : c # id)
InsertElementAt(children, i, id) ==
  SubSeq(children, 1, i - 1) \o <<id>> \o SubSeq(children, i, Len(children))
IndexOf(children, id) == CHOOSE i \in 1..Len(children) : children[i] = id
InsertElementSorted(objs, children, id) ==
  LET notAfter == { i \in 1..Len(children) :
                      NameRank(objs[children[i]].mName) <= NameRank(objs[id].mName) }
      at == IF notAfter = {} THEN 1
            ELSE (CHOOSE i \in notAfter : \A j \in notAfter : j <= i) + 1
  IN  InsertElementAt(children, at, id)

\* InternalInsertFolder(aParent, aName, aChild); ok, the INSERT gives a row.
InternalInsertFolder(db, aParent, aName, ok) ==
  LET id == db.nextId
      child == [mName |-> aName, mParent |-> aParent,
                mRoot |-> IF aParent # 0 THEN db.objs[aParent].mRoot ELSE id,
                mChildren |-> <<>>]
      objs1 == [db.objs EXCEPT ![id] = child]
      objs2 == IF aParent # 0
               THEN [objs1 EXCEPT ![aParent].mChildren =
                                    InsertElementSorted(objs1, @, id)]
               ELSE objs1
  IN  IF ~ok THEN [db |-> db, rv |-> NS_ERROR_FAILURE]
      ELSE [db |-> [objs |-> objs2, byId |-> db.byId \cup {id},
                    byPath |-> PathInsertOrUpdate(db.byPath, GetPath(objs2, id), id),
                    nextId |-> id + 1],
            rv |-> NS_OK]

\* InsertRoot(aServerKey, aRoot)
InsertRoot(db, aServerKey, ok) ==
  IF PathGet(db.byPath, <<aServerKey>>) # 0 THEN [db |-> db, rv |-> NS_OK]
  ELSE InternalInsertFolder(db, 0, aServerKey, ok)

\* InsertFolder(aParent, aName, aChild)
InsertFolder(db, aParent, aName, ok) ==
  IF \E i \in 1..Len(db.objs[aParent].mChildren) :
       db.objs[db.objs[aParent].mChildren[i]].mName = aName
  THEN [db |-> db, rv |-> NS_OK]
  ELSE InternalInsertFolder(db, aParent, aName, ok)

\* InternalDeleteFolder(aFolder): the children first, then the folder.
RECURSIVE InternalDeleteFolder(_, _)
RECURSIVE DeleteChildren(_, _)
DeleteChildren(db, clone) ==
  IF clone = <<>> THEN db
  ELSE DeleteChildren(InternalDeleteFolder(db, Head(clone)), Tail(clone))

InternalDeleteFolder(db, aFolder) ==
  LET db1 == DeleteChildren(db, db.objs[aFolder].mChildren)
      path == GetPath(db1.objs, aFolder)
      parent == db1.objs[aFolder].mParent
      objs1 == IF parent # 0
               THEN [db1.objs EXCEPT ![parent].mChildren = RemoveElement(@, aFolder)]
               ELSE db1.objs
  IN  [db1 EXCEPT !.byId = @ \ {aFolder},
                  !.byPath = PathRemove(@, path),
                  !.objs = [objs1 EXCEPT ![aFolder].mRoot = 0,
                                         ![aFolder].mParent = 0]]

\* DeleteFolder(aFolder); GetIsServer() is true of a folder without parent.
DeleteFolder(db, aFolder) ==
  IF db.objs[aFolder].mParent = 0 THEN [db |-> db, rv |-> NS_ERROR_UNEXPECTED]
  ELSE [db |-> InternalDeleteFolder(db, aFolder), rv |-> NS_OK]

\* MoveFolderWithin(aParent, aChild, aBefore); aBefore = 0 is nullptr.
MoveFolderWithin(db, aParent, aChild, aBefore) ==
  LET children == db.objs[aParent].mChildren
      has(id) == \E i \in 1..Len(children) : children[i] = id
      removed == RemoveElement(children, aChild)
      toEnd == Append(removed, aChild)
      placed == InsertElementAt(removed, IndexOf(removed, aBefore), aChild)
  IN  IF ~has(aChild) \/ aChild = aBefore
      THEN [db |-> db, rv |-> NS_ERROR_UNEXPECTED]
      ELSE IF aBefore = 0
      THEN [db |-> [db EXCEPT !.objs[aParent].mChildren = toEnd], rv |-> NS_OK]
      ELSE IF ~has(aBefore) THEN [db |-> db, rv |-> NS_ERROR_UNEXPECTED]
      ELSE [db |-> [db EXCEPT !.objs[aParent].mChildren = placed], rv |-> NS_OK]

\* The statements 539-546 of MoveFolderTo: the one path of the child is
\* removed and, after the child hangs below its new parent, its one new path
\* is entered.
Reparent(db, aNewParent, aChild) ==
  LET byPath1 == PathRemove(db.byPath, GetPath(db.objs, aChild))
      oldParent == db.objs[aChild].mParent
      objs1 == [db.objs EXCEPT ![oldParent].mChildren = RemoveElement(@, aChild)]
      objs2 == [objs1 EXCEPT ![aNewParent].mChildren =
                                InsertElementSorted(objs1, @, aChild)]
      objs3 == [objs2 EXCEPT ![aChild].mParent = aNewParent]
  IN  [db EXCEPT !.objs = objs3,
                 !.byPath = PathInsertOrUpdate(byPath1, GetPath(objs3, aChild), aChild)]

\* MoveFolderTo(aNewParent, aChild)
MoveFolderTo(db, aNewParent, aChild) ==
  IF db.objs[aChild].mParent = 0 THEN [db |-> db, rv |-> NS_ERROR_UNEXPECTED]
  ELSE IF db.objs[aChild].mParent = aNewParent THEN [db |-> db, rv |-> NS_OK]
  ELSE IF aChild = aNewParent THEN [db |-> db, rv |-> NS_ERROR_UNEXPECTED]
  ELSE IF IsDescendantOf(db.objs, aNewParent, aChild)
  THEN [db |-> db, rv |-> NS_ERROR_UNEXPECTED]
  ELSE IF db.objs[aChild].mRoot # db.objs[aNewParent].mRoot
  THEN [db |-> db, rv |-> NS_ERROR_UNEXPECTED]
  ELSE [db |-> Reparent(db, aNewParent, aChild), rv |-> NS_OK]

\* The database after InternalLoadFolders read the rows s, s/a, s/a/b.
LoadedDb ==
  LET r1 == InsertRoot(EmptyDb, "s", TRUE).db
      r2 == InsertFolder(r1, 1, "a", TRUE).db
  IN  InsertFolder(r2, 2, "b", TRUE).db

DbStep(op, r, arg) ==
  /\ calls < MaxDbCalls
  /\ folder' = r.db
  /\ last' = [op |-> op, rv |-> r.rv, arg |-> arg]
  /\ calls' = calls + 1
  /\ UNCHANGED <<file, streams, table>>

DbInsertRoot ==
  \E aServerKey \in {"s", "t"}, ok \in BOOLEAN :
    /\ folder.nextId <= MaxDbFolders
    /\ DbStep("InsertRoot", InsertRoot(folder, aServerKey, ok), 0)

DbInsertFolder ==
  \E aParent \in folder.byId, aName \in {"a", "b"}, ok \in BOOLEAN :
    /\ folder.nextId <= MaxDbFolders
    /\ DbStep("InsertFolder", InsertFolder(folder, aParent, aName, ok), aParent)

DbDeleteFolder ==
  \E aFolder \in folder.byId :
    DbStep("DeleteFolder", DeleteFolder(folder, aFolder), aFolder)

DbMoveFolderTo ==
  \E aNewParent, aChild \in folder.byId :
    DbStep("MoveFolderTo", MoveFolderTo(folder, aNewParent, aChild), aChild)

DbMoveFolderWithin ==
  \E aParent, aChild \in folder.byId, aBefore \in folder.byId \cup {0} :
    DbStep("MoveFolderWithin",
           MoveFolderWithin(folder, aParent, aChild, aBefore), aChild)

InitDb ==
  /\ file = <<>>
  /\ streams = [id \in StreamIds |-> NoStream]
  /\ table = EmptyTable
  /\ last = [op |-> "none", rv |-> NS_OK, arg |-> 0]
  /\ calls = 0
  /\ folder \in { EmptyDb, LoadedDb }

NextDb ==
  \/ DbInsertRoot
  \/ DbInsertFolder
  \/ DbDeleteFolder
  \/ DbMoveFolderTo
  \/ DbMoveFolderWithin

SpecDb == InitDb /\ [][NextDb]_vars

(***************************************************************************)
(* Test helper: all the messages of an mbox                                *)
(***************************************************************************)
MaxExtractCalls == 2   \* ExtractFromMbox calls

\* The messages MboxMsgInputStream reads from the lines ls: one for each
\* "From " line that starts the mbox or follows a blank line.
RECURSIVE ReadMessages(_, _)
ReadMessages(ls, i) ==
  IF i > Len(ls) THEN <<>>
  ELSE IF IsPrefix(sep, ls[i]) /\ (i = 1 \/ IsBlankLine(ls[i - 1]))
  THEN <<DecodeLines(SubSeq(ls, i + 1, Len(ls)))>> \o ReadMessages(ls, i + 1)
  ELSE ReadMessages(ls, i + 1)

\* The same helper without the special case for an empty mbox: Read() finds
\* no "From " and fails.
ExtractFromMboxNoSpecialCase(mbox, msgs, readSize) ==
  IF ~IsPrefix(sep, mbox)
  THEN [rv |-> Malformed[1], msgs |-> <<>>]
  ELSE [rv |-> NS_OK, msgs |-> ReadMessages(SplitLines(mbox), 1)]

\* ExtractFromMbox(mbox, msgs, readSize): msgs is the caller's array, which
\* comes back holding the messages; readSize > 0 does not change what is
\* read.
ExtractFromMbox(mbox, msgs, readSize) ==
  IF mbox = <<>> THEN [rv |-> NS_OK, msgs |-> <<>>]
  ELSE IF ~IsPrefix(sep, mbox)
  THEN [rv |-> Malformed[1], msgs |-> <<>>]
  ELSE [rv |-> NS_OK, msgs |-> ReadMessages(SplitLines(mbox), 1)]

\* The mboxes the helper is given: empty, not an mbox, and one or two
\* messages as the output stream writes them.
ExtractMsgs ==
  { <<"x", LF>>, <<"x">>, <<"F", "r", "o", "m", " ", "x", LF>>,
    <<GT, "F", "r", "o", "m", " ", LF>>, <<"x", LF, LF, "y", LF>> }

Mboxes ==
  { <<>>, <<"x">> }
  \cup { OneShot(<<>>, m) : m \in ExtractMsgs }
  \cup { OneShot(<<>>, m1) \o OneShot(<<>>, m2) : m1, m2 \in ExtractMsgs }

ReadSizes == 0..3

InitExtract ==
  /\ file = <<>>
  /\ streams = [id \in StreamIds |-> NoStream]
  /\ table = EmptyTable
  /\ calls = 0
  /\ folder = NoFolder
  /\ last = [op |-> "none", rv |-> NS_OK, msgs |-> <<>>]

Extract ==
  calls < MaxExtractCalls
  /\ \E mbox \in Mboxes, readSize \in ReadSizes :
       /\ mbox # <<>> => readSize > 0
       /\ LET r == ExtractFromMbox(mbox, last.msgs, readSize)
          IN  last' = [op |-> "ExtractFromMbox", rv |-> r.rv, msgs |-> r.msgs,
                       mbox |-> mbox, readSize |-> readSize, given |-> last.msgs]
  /\ calls' = calls + 1
  /\ UNCHANGED <<file, streams, table, folder>>

NextExtract == Extract

SpecExtract == InitExtract /\ [][NextExtract]_vars

(***************************************************************************)
(* Claims                                                                  *)
(***************************************************************************)

\* The last call was a Finish() that read the last byte of an empty fragment.
FinishReadPastFragment ==
  /\ last.op = "Finish"
  /\ last.pre = eStartAwaitingData
  /\ streams[last.id].mStartFragment = <<>>

\* C1: a Close() whose rollback Seek and SetEOF are made and succeed leaves
\* the sink with exactly the content it had when the stream was constructed,
\* whatever was written before.
C1_RollbackRestores ==
  (last.op = "Close" /\ last.rolledBack = "done") => file = streams[1].base

\* C1 witness: a Close() rolled back after a Write() that had reached the sink.
C1_Witness ==
  /\ last.op = "Close" /\ last.rolledBack = "done"
  /\ streams[1].msg # <<>>
  /\ streams[1].base # <<>>
  /\ ~streams[1].committed
  /\ file = streams[1].base

\* C2: however a message is split into Write() calls, the committed bytes are
\* those that one Write() of the whole message followed by Finish() leaves
\* (stated for streams whose construction succeeded and whose Finish() does
\* not read past an empty fragment).
C2_ChunkInvariance ==
  (streams[1].phase = "committed" /\ streams[1].mStartPos >= 0
     /\ ~FinishReadPastFragment)
    => file = streams[1].base \o OneShot(streams[1].mEnvelopeSender, streams[1].msg)

\* C3: a message passed in one Write() to a stream whose construction
\* succeeded and then committed leaves the envelope line followed by the
\* message with one '>' before every line matching ^>*From and every other
\* byte unchanged, followed by end-of-line bytes only.
C3_EscapingRule ==
  (streams[1].phase = "committed" /\ streams[1].mStartPos >= 0
     /\ streams[1].msg # <<>>)
    => LET want == buildFromLine(streams[1].mEnvelopeSender)
                     \o EscapeRef(streams[1].msg)
           got == Appended(1)
       IN  /\ file = streams[1].base \o got
           /\ IsPrefix(want, got)
           /\ \A i \in (Len(want) + 1)..Len(got) : got[i] \in {CR, LF}

\* C3 witness: a committed message whose second line is a quoted From line.
C3_Witness ==
  /\ streams[1].phase = "committed" /\ streams[1].mStartPos >= 0
  /\ streams[1].msg = <<"x", LF, GT, "F", "r", "o", "m", " ", "x">>
  /\ Appended(1) = buildFromLine(streams[1].mEnvelopeSender)
                     \o <<"x", LF, GT, GT, "F", "r", "o", "m", " ", "x">>
                     \o CRLF \o CRLF

\* C4: decoding what the Writes and Finish() appended gives back the message,
\* with a final CRLF when the message did not end with LF (stated for streams
\* whose construction succeeded and whose Finish() does not read past an
\* empty fragment).
C4_RoundTrip ==
  (streams[1].phase = "committed" /\ streams[1].mStartPos >= 0
     /\ streams[1].msg # <<>> /\ ~FinishReadPastFragment)
    => DecodeMsg(Appended(1)) =
         streams[1].msg \o (IF Last(streams[1].msg) = LF THEN <<>> ELSE CRLF)

\* C5: after a Finish() that committed, the sink keeps the content that
\* Finish() left, whatever is called on the stream afterwards.
C5_CommitIsDurable ==
  streams[1].committed => file = streams[1].commitFile

\* C6: at every moment at most one write stream issued for the folder is live.
C6_SingleWriter ==
  Cardinality({ id \in StreamIds : Live(id) }) <= 1

\* C7: a GetNewMsgOutputStream that finds the previous stream outstanding
\* removes every byte that stream wrote before positioning the new one, so
\* the new stream starts at the previous stream's start offset.
C7_PreviousRolledBack ==
  (/\ last.op = "GetNewMsgOutputStream"
   /\ last.rv = NS_OK
   /\ last.displaced # 0
   /\ streams[last.id].mStartPos >= 0
   /\ streams[last.displaced].mStartPos >= 0)
    => /\ streams[last.id].mStartPos = streams[last.displaced].mStartPos
       /\ streams[last.id].hasHdr
            => streams[last.id].token = Decimal(streams[last.displaced].mStartPos)

\* C8: a Write() with count > 0 on a stream that a failed sink write put into
\* Error state returns the latched status, passes no byte to the sink and
\* leaves state and status as they are.
C8_ErrorLatch ==
  [][(/\ streams[1].mState = eError
      /\ streams[1].mStatus = NS_ERROR_FILE_NO_DEVICE_SPACE
      /\ streams[1].mStartPos >= 0
      /\ last'.op = "Write"
      /\ streams'[1].msg # streams[1].msg)
       => /\ last'.rv = streams[1].mStatus
          /\ file' = file
          /\ streams'[1].mState = eError
          /\ streams'[1].mStatus = streams[1].mStatus]_vars

\* C9: a Write() with count > 0 on a Closed stream fails with the
\* stream-closed status, passes no byte to the sink and leaves it Closed.
C9_ClosedIsTerminal ==
  [][(/\ streams[1].mState = eClosed
      /\ last'.op = "Write"
      /\ streams'[1].msg # streams[1].msg)
       => /\ last'.rv = NS_BASE_STREAM_CLOSED
          /\ file' = file
          /\ streams'[1].mState = eClosed]_vars

\* C10: a Finish() in which a step fails returns the failure and, unless the
\* rollback Seek or SetEOF fails as well, leaves the sink truncated to StartPos.
C10_FinishFailureRollsBack ==
  (/\ last.op = "Finish"
   /\ last.pre \notin {eClosed, eError}
   /\ last.rv # NS_OK
   /\ last.rolledBack # "failed")
    => file = streams[1].base

\* C11: a Close() on a stream that is not yet Closed and whose rollback Seek
\* or SetEOF fails leaves the stream Closed and returns a failure status; a
\* Close() on a Closed stream makes no rollback attempt.
C11_RollbackFailureReported ==
  /\ (/\ last.op = "Close"
      /\ last.pre # eClosed
      /\ streams[1].mStartPos >= 0
      /\ last.rolledBack = "failed")
       => /\ streams[1].mState = eClosed
          /\ last.rv # NS_OK
  /\ (last.op = "Close" /\ last.pre = eClosed) => last.rolledBack = "none"

\* C12: the store token set for a message header is the decimal offset of
\* the end of the file after positioning, it equals the stream's StartPos,
\* and after a non-empty Write() and a successful FinishNewMessage the file
\* holds the message's envelope line at that offset (stated for streams
\* whose construction succeeded).
C12_TokenIsEnvelopeOffset ==
  \A id \in StreamIds :
    (Issued(id) /\ streams[id].hasHdr /\ streams[id].mStartPos >= 0)
      => /\ streams[id].token = Decimal(Len(streams[id].base))
         /\ streams[id].token = Decimal(streams[id].mStartPos)
         /\ (/\ last.op = "FinishNewMessage"
             /\ last.id = id
             /\ last.rv = NS_OK
             /\ streams[id].msg # <<>>)
              => IsPrefix(buildFromLine(streams[id].mEnvelopeSender),
                          SubSeq(file, streams[id].mStartPos + 1, Len(file)))

\* C13: a GetNewMsgOutputStream that assigns a store token appends CRLF to
\* the file exactly when the file is not empty and does not end with LF,
\* changes the file in no other way, and the token is the decimal length of
\* the resulting file, which is 0 or has LF as the byte before that offset.
C13_StartsOnLineBoundary ==
  [][(/\ last'.op = "GetNewMsgOutputStream"
      /\ last'.rv = NS_OK
      /\ streams'[last'.id].hasHdr)
       => /\ file' = IF file # <<>> /\ Last(file) # LF THEN file \o CRLF ELSE file
          /\ streams'[last'.id].token = Decimal(Len(file'))
          /\ Len(file') = 0 \/ file'[Len(file')] = LF]_vars

\* C13 witness: a token assigned over a file whose last byte was not LF.
C13_Witness ==
  /\ last.op = "GetNewMsgOutputStream"
  /\ last.rv = NS_OK
  /\ streams[last.id].hasHdr
  /\ file = <<"a">> \o CRLF
  /\ streams[last.id].token = <<"3">>

\* C14: after FinishNewMessage or DiscardNewMessage has been called with a
\* stream whose construction succeeded and its message header, the
\* Outstanding-stream table has no entry for the folder, whatever the call
\* returned.
C14_SlotReleased ==
  (/\ last.op \in {"FinishNewMessage", "DiscardNewMessage"}
   /\ streams[last.id].hasHdr
   /\ streams[last.id].mStartPos >= 0)
    => Folder \notin DOMAIN table

\* The positions in f of the digits of X-Mozilla-Status and
\* X-Mozilla-Status2 of the message whose store token is the offset off.
StatusDigits(f, off) ==
  LET start == HeadersStart(f, off)
      statusOff == FindHeader(f, start, X_MOZILLA_STATUS)
      status2Off == FindHeader(f, start, X_MOZILLA_STATUS2)
  IN  (IF statusOff >= 0 THEN (statusOff + 1)..(statusOff + 4) ELSE {})
        \cup (IF status2Off >= 0 THEN (status2Off + 1)..(status2Off + 8) ELSE {})

\* The store-token offsets of the headers of a batch.
TargetOffsets(aHdrArray) ==
  { ToInteger64(folder.hdrs[aHdrArray[i]].storeToken) : i \in 1..Len(aHdrArray) }

\* C15: a ChangeFlags call leaves the length of the mbox file as it is and
\* changes no byte other than the hex digits of the status headers of the
\* messages of the batch.
C15_FlagRewriteExact ==
  [][last'.op = "ChangeFlags"
       => /\ Len(file') = Len(file)
          /\ \A i \in 1..Len(file) :
               file'[i] # file[i]
                 => \E off \in TargetOffsets(last'.aHdrArray) :
                      i \in StatusDigits(file, off)]_vars

\* C16: a ChangeFlags call in which the rewrite of the status header of a
\* message of the batch fails returns a failure status.
C16_RewriteErrorSurfaced ==
  (last.op = "ChangeFlags" /\ last.failed) => last.rv # NS_OK

\* C17: no flag value that ChangeFlags passes to the rewrite of a status
\* header has a RuntimeOnly bit.
C17_NoRuntimeOnlyPassed ==
  last.op = "ChangeFlags"
    => \A i \in 1..Len(last.passed) : last.passed[i] \cap RuntimeOnly = {}

\* C18: a ChangeFlags or ChangeKeywords call on a non-empty batch uses one
\* handle and, when every Seek succeeds, visits the messages in ascending
\* order of their store-token offsets.
C18_AscendingVisits ==
  (/\ last.op \in {"ChangeFlags", "ChangeKeywords"}
   /\ last.aHdrArray # <<>>
   /\ last.fail = "none")
    => /\ last.handles = 1
       /\ \A i, j \in 1..Len(last.visited) :
            i < j => last.visited[i] <= last.visited[j]

\* C19: a GetNewMsgOutputStream call made for the folder while a compaction
\* of it is in progress is detected and issues no write stream.
C19_CompactionExcludesDelivery ==
  (folder.compacting /\ last.op = "GetNewMsgOutputStream") => last.rv # NS_OK

\* a >= b as unsigned 32-bit values
Geq32(a, b) == a.hi > b.hi \/ (a.hi = b.hi /\ a.lo >= b.lo)

\* |a - b| <= leeway in exact arithmetic, for 0 <= leeway < 2^31
TrueDiffLeq(a, b, leeway) ==
  LET d == IF Geq32(a, b) THEN Sub32(a, b) ELSE Sub32(b, a)
  IN  ~IsNegative32(d) /\ ToInt(d) <= leeway

\* C20: for a local folder whose mbox file times can be read,
\* IsSummaryFileValid reports valid exactly when the cached size equals the
\* file size, the cached unread count is not negative, and the size is 0 or
\* the cached and the current modification time differ by at most the leeway
\* (stated for the timestamps whose 32-bit difference has an absolute value).
C20_SummaryValidity ==
  (/\ last.op = "IsSummaryFileValid" /\ last.isLocal /\ last.timeOk
   /\ Sub32(last.sec, last.info.folderDate) # INT32_MIN)
    => last.aResult =
         (/\ last.info.folderSize = last.size
          /\ last.info.numUnreadMessages >= 0
          /\ \/ last.size = 0
             \/ TrueDiffLeq(last.info.folderDate, last.sec,
                            folder.g.gTimeStampLeeway))

\* C21: when the path and (with the cap) the size of the mbox file can be
\* read, HasSpaceAvailable with the legacy cap enabled returns
\* NS_ERROR_FILE_TOO_BIG and false exactly when fileSize + aSpaceRequested
\* >= 0xFFC00000; otherwise, and always with the cap disabled, it returns
\* NS_ERROR_FILE_NO_DEVICE_SPACE and false when the disk lacks the space and
\* NS_OK and true when it has it.
C21_CapacityPreflight ==
  (/\ last.op = "HasSpaceAvailable"
   /\ last.pathOk
   /\ (last.allow4GBfolders \/ last.sizeOk))
    => LET sum == AddSize(last.fileSize, last.aSpaceRequested)
           capped == ~last.allow4GBfolders /\ ~LessSize(sum, MboxCap)
       IN  /\ last.set
           /\ (last.rv = NS_ERROR_FILE_TOO_BIG) <=> capped
           /\ capped => ~last.aResult
           /\ (~capped /\ ~last.diskHas)
                => (last.rv = NS_ERROR_FILE_NO_DEVICE_SPACE /\ ~last.aResult)
           /\ (~capped /\ last.diskHas) => (last.rv = NS_OK /\ last.aResult)

\* The cap is reached exactly: 4091 MiB + (1 MiB - 1) + 1 byte.
C21_Witness ==
  /\ last.op = "HasSpaceAvailable"
  /\ ~last.allow4GBfolders
  /\ last.pathOk /\ last.sizeOk /\ last.diskHas
  /\ AddSize(last.fileSize, last.aSpaceRequested) = MboxCap
  /\ last.rv = NS_ERROR_FILE_TOO_BIG

\* C22: a CreateFolder that returns a failure after the child was registered
\* has undone the registration with PropagateDelete: the child is then not
\* registered under the parent.
C22_FailedCreateUnregisters ==
  (/\ last.op = "CreateFolder"
   /\ last.registered
   /\ last.rv # NS_OK)
    => /\ last.undone
       /\ (last.aParent \o <<last.aFolderName>>) \notin folder.subFolders

\* The folders below f (f included) that the tree t has registered, with
\* their files and summaries, renamed to lie below g.
Moved(q, f, g) == g \o SubSeq(q, Len(f) + 1, Len(q))

CopiedTo(before, t, f, g) ==
  \A q \in before.subFolders :
    Under(f, q) =>
      /\ Moved(q, f, g) \in t.subFolders
      /\ Moved(q, f, g) \in t.files
      /\ (q \in before.dbs => Moved(q, f, g) \in t.dbs)

SourceIntact(before, t, f) ==
  \A q \in before.subFolders :
    Under(f, q) =>
      /\ q \in t.subFolders
      /\ (q \in before.files <=> q \in t.files)
      /\ (q \in before.dbs <=> q \in t.dbs)

C24_FlagDerivation ==
  last.op = "ParseMsgHeaders"
    => LET valid == Len(last.mozstatus) = 4 /\ MsgIsHex(last.mozstatus, 4)
           valid2 == Len(last.mozstatus2) = 8 /\ MsgIsHex(last.mozstatus2, 8)
           low == IF valid THEN MsgUnhex(last.mozstatus, 4) \ RuntimeOnly
                  ELSE IF FindCharInSet(last.status, {"R", "r", "O"})
                          /\ ~FindCharInSet(last.status, {"N", "n", "U", "u"})
                  THEN Read ELSE {}
           high == IF valid2 THEN MsgUnhex(last.mozstatus2, 8) \cap 16..31 ELSE {}
       IN  last.flags = low \cup high

\* C25: ExtractFromMbox of a zero-length mbox returns NS_OK and an empty
\* list of messages, whatever the read size and whatever the list held.
C25_EmptyMailbox ==
  (last.op = "ExtractFromMbox" /\ last.mbox = <<>>)
    => (last.rv = NS_OK /\ last.msgs = <<>>)

\* An empty mbox is extracted into a list that held messages, with read
\* size 0.
C25_Witness ==
  /\ last.op = "ExtractFromMbox"
  /\ last.mbox = <<>>
  /\ last.readSize = 0
  /\ Len(last.given) = 2
  /\ last.msgs = <<>>

\* C26: a successful Write() that finds the stream in eStartAwaitingData and
\* reaches a decision for the buffered fragment writes the fragment (after
\* '>' when it matches) and then what scanning the rest of the buffer gives
\* when it starts in eStartOfLine after a fragment that ended with LF and in
\* eMidLine after any other fragment.
C26_FragmentResolution ==
  [][ (/\ last'.op = "Write"
       /\ last'.rv = NS_OK
       /\ streams[1].mState = eStartAwaitingData
       /\ Len(streams'[1].msg) > Len(streams[1].msg))
        => LET s == streams[1]
               buf == SubSeq(streams'[1].msg, Len(s.msg) + 1, Len(streams'[1].msg))
               a == AwaitData(Ctx(s, file, -1), buf, 1)
               fragment == s.mStartFragment \o SubSeq(buf, 1, a.src - 1)
               from == IF Last(fragment) = LF THEN eStartOfLine ELSE eMidLine
               rest == Scan([a.c EXCEPT !.s.mState = from], buf, a.src, a.src)
           IN  ~a.done => file' = rest.file ]_vars

\* C27: a stream in eStartAwaitingData holds a non-empty start fragment, so
\* the assertion of the eStartAwaitingData branch of Write() does not fail
\* and Finish() does not index an empty fragment.
C27_FragmentNonEmpty ==
  /\ streams[1].mState = eStartAwaitingData => streams[1].mStartFragment # <<>>
  /\ ~streams[1].assertFailed
  /\ ~FinishReadPastFragment

\* C28: a successful Finish() after writes that all succeeded and passed at
\* least one byte leaves, after StartPos, bytes that end with LF CR LF; when
\* the message did not end with LF, Finish() has added CRLF after its last
\* byte and then the separator CRLF, and when it did end with LF, Finish()
\* has added the separator only.
C28_CommittedShape ==
  [][ (/\ last'.op = "Finish"
       /\ last'.rv = NS_OK
       /\ streams[1].phase = "writing"
       /\ streams'[1].phase = "committed"
       /\ streams[1].msg # <<>>)
        => LET msg == streams[1].msg
               n == Len(file')
               added == n - Len(file) - Len(streams[1].mStartFragment)
           IN  /\ n >= streams[1].mStartPos + 3
               /\ SubSeq(file', n - 2, n) = <<LF>> \o CRLF
               /\ Last(msg) = LF => added = 2
               /\ Last(msg) # LF
                    => /\ added = 4
                       /\ SubSeq(file', n - 4, n) = <<Last(msg)>> \o CRLF \o CRLF
    ]_vars

\* C29: a Write() that puts bytes in the sink leaves there, after the
\* content the stream started from, the envelope line ("From ", the sender,
\* the date, CRLF) first, or the part of it the sink accepted: no message
\* byte is in the sink without the envelope before it; the first Write()
\* with count > 0 emits the envelope and it is not emitted a second time.
C29_EnvelopeFirst ==
  [][ (last'.op = "Write" /\ file' # file)
        => LET A == SubSeq(file', Len(streams[1].base) + 1, Len(file'))
               env == buildFromLine(streams[1].mEnvelopeSender)
           IN  /\ IsPrefix(env, A) \/ IsPrefix(A, env)
               /\ (last'.pre = eInitial /\ last'.n > 0) => IsPrefix(env, A)
               /\ Cardinality({ i \in 1..Len(A) :
                                  /\ i + Len(env) - 1 <= Len(A)
                                  /\ SubSeq(A, i, i + Len(env) - 1) = env }) <= 1
    ]_vars

\* C30: a Write() that returns NS_OK reports bytesWritten = count, also when
\* the end of the buffer is held back as an undecided fragment, and a
\* Write() that returns a failure reports bytesWritten = 0.
C30_ConsumedCount ==
  [][ last'.op = "Write"
        => LET count == Len(streams'[1].msg) - Len(streams[1].msg)
           IN  /\ last'.rv = NS_OK => last'.n = count
               /\ last'.rv # NS_OK => last'.n = 0 ]_vars

\* A Write() of one byte that is held back as a fragment, not passed to the
\* sink, reports one byte consumed.
C30_Witness ==
  /\ last.op = "Write"
  /\ last.rv = NS_OK
  /\ last.n = 1
  /\ streams[1].mState = eStartAwaitingData
  /\ streams[1].mStartFragment = <<"F">>
  /\ Appended(1) = buildFromLine(streams[1].mEnvelopeSender)

\* C31: the flags ParseMsgHeaders returns include the Attachment bit whenever
\* the header block has a Content-Type of multipart/mixed.
C31_AttachmentFlag ==
  (last.op = "ParseMsgHeaders"
     /\ last.contentType \in {"multipart/mixed", "MULTIPART/MIXED"})
    => Attachment \subseteq last.flags

\* C32: a Write() of no bytes changes neither the sink nor the state of the
\* stream, and a Finish() on a stream still in state Initial appends exactly
\* the separator CRLF to the sink, with no envelope line, and succeeds unless
\* the sink itself refuses the bytes or fails to close.
C32_FinishWithNothingWritten ==
  [][/\ (last'.op = "Write" /\ calls' = calls + 1
           /\ streams'[1].msg = streams[1].msg)
          => /\ file' = file
             /\ streams'[1].mState = streams[1].mState
             /\ last'.rv = NS_OK
     /\ (last'.op = "Finish" /\ calls' = calls + 1
           /\ streams[1].mState = eInitial)
          => /\ file = streams[1].base
             /\ \/ /\ last'.rv = NS_OK
                   /\ file' = file \o CRLF
                   /\ streams'[1].mState = eClosed
                \/ last'.rv = NS_ERROR_FILE_NO_DEVICE_SPACE
                \/ /\ last'.rv = NS_ERROR_FAILURE
                   /\ streams[1].mCloseInnerWhenDone
                   /\ file' = file \o CRLF]_vars

\* A commit straight after construction over "a\n": the sink holds the prior
\* content and the separator only.
C32_Witness ==
  /\ last.op = "Finish"
  /\ last.pre = eInitial
  /\ last.rv = NS_OK
  /\ streams[1].msg = <<>>
  /\ streams[1].mState = eClosed
  /\ file = <<"a", LF>> \o CRLF

\* C33: Close() on a stream in state Error whose start position is known
\* still seeks to StartPos and truncates there (the sink is cut back to
\* StartPos when both succeed) and leaves the stream Closed; Finish() on such
\* a stream does the same rollback, appends nothing, commits nothing and
\* returns the latched status.
C33_LeavingError ==
  [][(last'.op \in {"Close", "Finish"} /\ calls' = calls + 1
        /\ streams[1].mState = eError /\ streams[1].mStartPos >= 0)
       => /\ streams'[1].mState = eClosed
          /\ last'.attempted
          /\ last'.rolledBack \in {"done", "failed"}
          /\ last'.rolledBack = "done" => file' = SetEOF(file, streams[1].mStartPos)
          /\ last'.rolledBack = "failed" => file' = file
          /\ last'.op = "Finish"
               => /\ last'.rv = streams[1].mStatus
                  /\ last'.rv # NS_OK
                  /\ streams'[1].committed = streams[1].committed]_vars

\* A Write() over "a\n" on which the sink failed after two bytes, then a
\* Finish(): the sink is back at "a\n" and the status is the one latched.
C33_Witness ==
  /\ last.op = "Finish"
  /\ last.pre = eError
  /\ last.rv = NS_ERROR_FILE_NO_DEVICE_SPACE
  /\ last.rolledBack = "done"
  /\ streams[1].mState = eClosed
  /\ streams[1].msg # <<>>
  /\ ~streams[1].committed
  /\ file = <<"a", LF>>

\* C34: a FinishNewMessage or DiscardNewMessage called with a stream that a
\* later GetNewMsgOutputStream on the folder displaced leaves the table entry
\* of the newer stream in place.
C34_StaleKeepsSuccessor ==
  [][(/\ last'.op \in {"FinishNewMessage", "DiscardNewMessage"}
      /\ calls' = calls + 1
      /\ Outstanding # 0
      /\ Outstanding # last'.id)
       => table' = table]_vars

\* The stream id is the only one the store has issued.
OnlyStream(id) == \A j \in StreamIds \ {id} : ~streams[j].issued

\* C35: the stream of a successful GetNewMsgOutputStream starts after the
\* prior content of the mbox file, followed by the repair CRLF when that
\* content did not end with LF, and a successful DiscardNewMessage on it,
\* whatever was written in between, leaves the file with exactly those bytes
\* and with the length the store token names.
C35_DiscardRestores ==
  [][/\ (/\ last'.op = "GetNewMsgOutputStream"
         /\ calls' = calls + 1
         /\ last'.rv = NS_OK
         /\ Unissued = StreamIds)
          => streams'[last'.id].base
               = IF file = <<>> \/ Last(file) = LF THEN file ELSE file \o CRLF
     /\ (/\ last'.op = "DiscardNewMessage"
         /\ calls' = calls + 1
         /\ last'.rv = NS_OK
         /\ OnlyStream(last'.id))
          => /\ file' = streams[last'.id].base
             /\ streams[last'.id].token = Decimal(Len(file'))]_vars

\* C36: when the Seek to the store-token offset of a message fails in
\* ChangeFlags or ChangeKeywords, the rewrite is not invoked for that message
\* (nor for the ones after it), so fewer rewrites are made than the batch has
\* messages and none is made at the position the handle was left at.
C36_NoStaleRewrite ==
  (/\ last.op \in {"ChangeFlags", "ChangeKeywords"}
   /\ last.aHdrArray # <<>>
   /\ last.fail = "seek")
    => Len(last.visited) < Len(last.aHdrArray)

\* C37: an Emit() whose sink accepts at least one byte in every successful
\* write returns; at every moment the sink holds what it held at the call
\* followed by the bytes accepted so far, in order, each once (a partial
\* write is continued from the first unaccepted byte), and an Emit() that
\* returns success has passed all of its bytes.
C37_EmitTerminates ==
  /\ [](last.op = "Emit"
          => /\ file = last.base \o SubSeq(last.data, 1, last.off)
             /\ last.off + last.numBytes = Len(last.data)
             /\ (~last.running /\ last.rv = NS_OK) => last.numBytes = 0)
  /\ ((last.op = "Emit" /\ last.running) ~> ~last.running)

\* An Emit() of six bytes that took three sink writes and returned success.
C37_Witness ==
  /\ last.op = "Emit"
  /\ ~last.running
  /\ last.rv = NS_OK
  /\ last.writes = 3
  /\ last.data = <<GT, "F", "r", "o", "m", " ">>
  /\ file = last.base \o last.data

\* C38: the line count FinishHeader reports is the number of lines fed to
\* ParseFolderLine after the blank line that ended the header block, also
\* for a message of more than 65535 body lines.
C38_BodyLineCount ==
  (last.op = "FinishHeader" /\ folder.hasHdr)
    => folder.lineCount = folder.received

\* C39: while a MoveIncorporatedMessage call that acquired the semaphore of
\* the destination folder runs, the parser holds it, and when the call has
\* returned, with success or with any failure, the parser does not hold it.
C39_SemaphoreReleased ==
  /\ (folder.pc = "idle" => folder.sem # Parser)
  /\ (folder.pc # "idle" => (folder.acquired /\ folder.sem = Parser))

\* A call that acquired the semaphore and returned because the destination
\* is not a local folder.
C39_Witness ==
  /\ folder.pc = "idle"
  /\ folder.acquired
  /\ last.op = "MoveGetStream"
  /\ last.rv = NS_MSG_POP_FILTER_TARGET_ERROR
  /\ folder.sem = NoHolder

\* C40: the index by path maps the current path of every folder of the
\* database to that folder, and every entry of the index is the current path
\* of the folder it names.
C40_PathIndex ==
  /\ \A id \in folder.byId :
       PathGet(folder.byPath, GetPath(folder.objs, id)) = id
  /\ \A e \in folder.byPath :
       e[2] \in folder.byId /\ GetPath(folder.objs, e[2]) = e[1]

====
